---- MODULE Spec2Model ----
(***************************************************************************)
(* Pattern library: the catalog scan, the keyword search and the two       *)
(* front-ends (index.js: the protocol server; server.js: the HTTP router). *)
(*                                                                         *)
(* A string is a sequence of one-character strings, so that toLowerCase,   *)
(* includes, endsWith, replace, the regular expressions and path.join are  *)
(* computed character by character, as the JavaScript runtime does.        *)
(***************************************************************************)
EXTENDS Integers, Sequences, FiniteSets, TLC

VARIABLES
    fs,          \* the directory tree below __dirname (README.md, patterns/...)
    req,         \* the request being answered, or NoReq
    resp,        \* the response produced for req, not yet delivered, or NoResp
    firstSearch, \* the first search request answered and its response (history)
    tasks        \* the handlers in flight at once, each with its own locals

vars == <<fs, req, resp, firstSearch, tasks>>

----------------------------------------------------------------------------
(* JavaScript string primitives                                            *)

UpperLetters ==
    <<"A","B","C","D","E","F","G","H","I","J","K","L","M",
      "N","O","P","Q","R","S","T","U","V","W","X","Y","Z">>

LowerLetters ==
    <<"a","b","c","d","e","f","g","h","i","j","k","l","m",
      "n","o","p","q","r","s","t","u","v","w","x","y","z">>

\* String.prototype.toLowerCase, one character
toLowerCaseChar(c) ==
    IF \E i \in 1..Len(UpperLetters) : UpperLetters[i] = c
    THEN LowerLetters[CHOOSE i \in 1..Len(UpperLetters) : UpperLetters[i] = c]
    ELSE c

\* String.prototype.toLowerCase
toLowerCase(s) == [i \in 1..Len(s) |-> toLowerCaseChar(s[i])]

\* the positions (0-based offsets) at which pat occurs in s
Occurrences(s, pat) ==
    {i \in 0..(Len(s) - Len(pat)) : SubSeq(s, i + 1, i + Len(pat)) = pat}

\* includes that finds nothing in an empty text and never the empty pattern
includes_NeverEmpty(s, pat) == s # <<>> /\ pat # <<>> /\ Occurrences(s, pat) # {}

\* String.prototype.includes
includes(s, pat) == Occurrences(s, pat) # {}

\* String.prototype.endsWith
endsWith(s, suffix) ==
    /\ Len(s) >= Len(suffix)
    /\ SubSeq(s, Len(s) - Len(suffix) + 1, Len(s)) = suffix

\* String.prototype.replace with a string pattern: the first occurrence only
replace(s, pat, by) ==
    IF Occurrences(s, pat) = {} THEN s
    ELSE LET i == CHOOSE k \in Occurrences(s, pat) :
                      \A m \in Occurrences(s, pat) : k <= m
         IN  SubSeq(s, 1, i) \o by \o SubSeq(s, i + Len(pat) + 1, Len(s))

\* the extension '.md' of index.js:175 and server.js:86
MdExt == <<".", "m", "d">>

----------------------------------------------------------------------------
(* The regular expressions /^#\s+(.+)$/m, /^>\s+(.+)$/m and />\s+(.+)$/m    *)

\* a character '.' does not match, and before which '$' matches under /m
IsLineTerminator(c) == c \in {"\n", "\r"}

\* a character \s matches
IsWhitespace(c) == c \in {" ", "\t", "\n", "\r"}

\* '^' under /m: the start of the input or just after a line terminator
AtLineStart(s, i) == i = 1 \/ IsLineTerminator(s[i - 1])

\* the first position >= k that holds a line terminator, or Len(s) + 1
LineEnd(s, k) ==
    IF \E j \in k..Len(s) : IsLineTerminator(s[j])
    THEN CHOOSE j \in k..Len(s) :
             /\ IsLineTerminator(s[j])
             /\ \A m \in k..(j - 1) : ~IsLineTerminator(s[m])
    ELSE Len(s) + 1

\* the first position > i that holds no whitespace, or Len(s) + 1
WhitespaceEnd(s, i) ==
    IF \E j \in (i + 1)..Len(s) : ~IsWhitespace(s[j])
    THEN CHOOSE j \in (i + 1)..Len(s) :
             /\ ~IsWhitespace(s[j])
             /\ \A m \in (i + 1)..(j - 1) : IsWhitespace(s[m])
    ELSE Len(s) + 1

\* where the group (.+) can start when the marker sits at position i: after a
\* non-empty run of \s, on a character '.' matches
CaptureStarts(s, i) ==
    {k \in (i + 2)..WhitespaceEnd(s, i) : k <= Len(s) /\ ~IsLineTerminator(s[k])}

\* marker \s+ (.+) $ tried at position i: \s+ is greedy, so the group starts
\* at the last possible position, and runs to the end of its line
MarkerMatchesAt(s, marker, i) == s[i] = marker /\ CaptureStarts(s, i) # {}

CaptureAt(s, i) ==
    LET k == CHOOSE c \in CaptureStarts(s, i) : \A d \in CaptureStarts(s, i) : d <= c
    IN  SubSeq(s, k, LineEnd(s, k) - 1)

\* String.prototype.match of a regular expression marker\s+(.+)$ with flag m,
\* anchored by ^ or not: the leftmost match; [found, group]
NoMatch == [found |-> FALSE, group |-> <<>>]

regexMatch(s, marker, anchored) ==
    LET starts == {i \in 1..Len(s) :
                      /\ anchored => AtLineStart(s, i)
                      /\ MarkerMatchesAt(s, marker, i)}
    IN  IF starts = {} THEN NoMatch
        ELSE [found |-> TRUE,
              group |-> CaptureAt(s, CHOOSE i \in starts : \A j \in starts : i <= j)]

----------------------------------------------------------------------------
(* path.join                                                               *)

Slash == "/"

\* String.prototype.split on '/'
RECURSIVE split(_)
split(s) ==
    IF \E i \in 1..Len(s) : s[i] = Slash
    THEN LET i == CHOOSE k \in 1..Len(s) :
                      s[k] = Slash /\ \A m \in 1..(k - 1) : s[m] # Slash
         IN  <<SubSeq(s, 1, i - 1)>> \o split(SubSeq(s, i + 1, Len(s)))
    ELSE <<s>>

Dot == <<".">>
DotDot == <<".", ".">>

\* path.normalize on the segments: '' and '.' vanish, '..' removes the
\* segment before it; a '..' with nothing before it stays (it leaves __dirname)
RECURSIVE normalize(_, _)
normalize(done, segs) ==
    IF segs = <<>> THEN done
    ELSE LET seg == Head(segs) IN
         IF seg = <<>> \/ seg = Dot THEN normalize(done, Tail(segs))
         ELSE IF seg = DotDot /\ done # <<>> /\ done[Len(done)] # DotDot
              THEN normalize(SubSeq(done, 1, Len(done) - 1), Tail(segs))
              ELSE normalize(Append(done, seg), Tail(segs))

RECURSIVE splitAll(_)
splitAll(parts) ==
    IF parts = <<>> THEN <<>> ELSE split(Head(parts)) \o splitAll(Tail(parts))

\* path.join(__dirname, ...parts): the segments of the path below __dirname
pathJoin(parts) == normalize(<<>>, splitAll(parts))

\* 'patterns' of index.js:45 and server.js:75
PatternsDirName == <<"p","a","t","t","e","r","n","s">>

----------------------------------------------------------------------------
(* The file system below __dirname, and fs.readdir / fs.stat / fs.readFile  *)

\* a directory entry: a regular file with its text, or a directory with its
\* entries in the order readdir returns them; readable = FALSE denies reading
File(name, content) ==
    [name |-> name, kind |-> "file", readable |-> TRUE,
     content |-> content, entries |-> <<>>]

Dir(name, entries) ==
    [name |-> name, kind |-> "dir", readable |-> TRUE,
     content |-> <<>>, entries |-> entries]

Unreadable(node) == [node EXCEPT !.readable = FALSE]

NoNode == [name |-> <<>>, kind |-> "none", readable |-> FALSE,
           content |-> <<>>, entries |-> <<>>]

\* the node a path of segments names, walking down from node; [err, node]
RECURSIVE lookup(_, _)
lookup(node, segs) ==
    IF segs = <<>> THEN [err |-> "", node |-> node]
    ELSE IF node.kind # "dir" THEN [err |-> "ENOTDIR", node |-> NoNode]
    ELSE IF Head(segs) = DotDot
         \* above __dirname: outside the tree the model holds
         THEN [err |-> "ENOENT", node |-> NoNode]
    ELSE IF \E i \in 1..Len(node.entries) : node.entries[i].name = Head(segs)
         THEN lookup(node.entries[CHOOSE i \in 1..Len(node.entries) :
                                      node.entries[i].name = Head(segs)],
                     Tail(segs))
         ELSE [err |-> "ENOENT", node |-> NoNode]

\* one call of fs.readdir, fs.stat or fs.readFile, as a request's record of
\* the calls it made keeps it
Io(op, path) == [op |-> op, path |-> path]

\* fs.readdir(path): the names of the entries, in directory order; [err, names]
readdir(tree, path) ==
    LET r == lookup(tree, path) IN
    IF r.err # "" THEN [err |-> r.err, names |-> <<>>]
    ELSE IF r.node.kind # "dir" THEN [err |-> "ENOTDIR", names |-> <<>>]
    ELSE IF ~r.node.readable THEN [err |-> "EACCES", names |-> <<>>]
    ELSE [err |-> "",
          names |-> [i \in 1..Len(r.node.entries) |-> r.node.entries[i].name]]

\* fs.stat(path): [err, isDirectory]
stat(tree, path) ==
    LET r == lookup(tree, path) IN
    IF r.err # "" THEN [err |-> r.err, isDirectory |-> FALSE]
    ELSE [err |-> "", isDirectory |-> r.node.kind = "dir"]

\* fs.readFile(path, 'utf-8'): [err, content]
readFile(tree, path) ==
    LET r == lookup(tree, path) IN
    IF r.err # "" THEN [err |-> r.err, content |-> <<>>]
    ELSE IF r.node.kind = "dir" THEN [err |-> "EISDIR", content |-> <<>>]
    ELSE IF ~r.node.readable THEN [err |-> "EACCES", content |-> <<>>]
    ELSE [err |-> "", content |-> r.node.content]

----------------------------------------------------------------------------
(* getPatternList: the scan of patterns/<category>/<file>.md                *)

\* the text before ${category}/${name}.md in the url of server.js:104, kept
\* as one unit: nothing looks inside it
UrlPrefix ==
    <<"https://github.com/richardichogan/vibe-coding-helper/blob/master/patterns/">>

\* the entry titled with its whole heading line, marker included
patternEntry_HeadingLine(category, file, content) ==
    LET titleMatch == regexMatch(content, "#", TRUE)
        descMatch  == regexMatch(content, ">", TRUE)
    IN  [category    |-> category,
         name        |-> replace(file, MdExt, <<>>),
         title       |-> IF titleMatch.found
                         THEN <<"#", " ">> \o titleMatch.group ELSE file,
         description |-> IF descMatch.found THEN descMatch.group ELSE <<>>]

\* index.js:177-185: the entry pushed for one markdown file
patternEntry(category, file, content) ==
    LET titleMatch == regexMatch(content, "#", TRUE)
        descMatch  == regexMatch(content, ">", TRUE)
    IN  [category    |-> category,
         name        |-> replace(file, MdExt, <<>>),
         title       |-> IF titleMatch.found THEN titleMatch.group ELSE file,
         description |-> IF descMatch.found THEN descMatch.group ELSE <<>>]

\* server.js:89-105: the entry pushed for one markdown file
httpPatternEntry(category, file, content) ==
    LET name       == replace(file, MdExt, <<>>)
        titleMatch == regexMatch(content, "#", TRUE)
        descMatch  == regexMatch(content, ">", FALSE)
    IN  [category    |-> category,
         name        |-> name,
         title       |-> IF titleMatch.found THEN titleMatch.group ELSE name,
         description |-> IF descMatch.found THEN descMatch.group ELSE <<>>,
         url         |-> UrlPrefix \o category \o <<Slash>> \o name \o MdExt]

makeEntry(via, category, file, content) ==
    IF via = "mcp" THEN patternEntry(category, file, content)
    ELSE httpPatternEntry(category, file, content)

\* one array kept across the calls: a scan starts from what the first search
\* left in it
NewPatterns_KeptAcrossCalls == firstSearch.resp.entries

\* 'const patterns = []' of index.js:164 and server.js:74
NewPatterns == <<>>

\* the inner loop pushing an entry only for a file with a heading
RECURSIVE scanFiles_SkipsUntitled(_, _, _, _, _, _)
scanFiles_SkipsUntitled(tree, via, category, files, patterns, io) ==
    IF files = <<>> THEN [err |-> "", patterns |-> patterns, io |-> io]
    ELSE LET file == Head(files) IN
         IF endsWith(file, MdExt)
         THEN LET filePath == pathJoin(<<PatternsDirName, category, file>>)
                  rd       == readFile(tree, filePath)
                  io2      == Append(io, Io("readFile", filePath))
              IN  IF rd.err # "" THEN [err |-> rd.err, patterns |-> patterns, io |-> io2]
                  ELSE scanFiles_SkipsUntitled(tree, via, category, Tail(files),
                           IF regexMatch(rd.content, "#", TRUE).found
                           THEN Append(patterns,
                                       makeEntry(via, category, file, rd.content))
                           ELSE patterns,
                           io2)
         ELSE scanFiles_SkipsUntitled(tree, via, category, Tail(files), patterns, io)

\* the inner loop putting each entry in front of those found before
RECURSIVE scanFiles_NewestFirst(_, _, _, _, _, _)
scanFiles_NewestFirst(tree, via, category, files, patterns, io) ==
    IF files = <<>> THEN [err |-> "", patterns |-> patterns, io |-> io]
    ELSE LET file == Head(files) IN
         IF endsWith(file, MdExt)
         THEN LET filePath == pathJoin(<<PatternsDirName, category, file>>)
                  rd       == readFile(tree, filePath)
                  io2      == Append(io, Io("readFile", filePath))
              IN  IF rd.err # "" THEN [err |-> rd.err, patterns |-> patterns, io |-> io2]
                  ELSE scanFiles_NewestFirst(tree, via, category, Tail(files),
                           <<makeEntry(via, category, file, rd.content)>> \o patterns,
                           io2)
         ELSE scanFiles_NewestFirst(tree, via, category, Tail(files), patterns, io)

\* the inner loop passing over a file it cannot read
RECURSIVE scanFiles_SkipsUnreadable(_, _, _, _, _, _)
scanFiles_SkipsUnreadable(tree, via, category, files, patterns, io) ==
    IF files = <<>> THEN [err |-> "", patterns |-> patterns, io |-> io]
    ELSE LET file == Head(files) IN
         IF endsWith(file, MdExt)
         THEN LET filePath == pathJoin(<<PatternsDirName, category, file>>)
                  rd       == readFile(tree, filePath)
                  io2      == Append(io, Io("readFile", filePath))
              IN  scanFiles_SkipsUnreadable(tree, via, category, Tail(files),
                      IF rd.err # "" THEN patterns
                      ELSE Append(patterns, makeEntry(via, category, file, rd.content)),
                      io2)
         ELSE scanFiles_SkipsUnreadable(tree, via, category, Tail(files), patterns, io)

\* the inner loop, index.js:174-187 and server.js:85-107; [err, patterns, io]:
\* a failed readFile throws out of the scan
RECURSIVE scanFiles(_, _, _, _, _, _)
scanFiles(tree, via, category, files, patterns, io) ==
    IF files = <<>> THEN [err |-> "", patterns |-> patterns, io |-> io]
    ELSE LET file == Head(files) IN
         IF endsWith(file, MdExt)
         THEN LET filePath == pathJoin(<<PatternsDirName, category, file>>)
                  rd       == readFile(tree, filePath)
                  io2      == Append(io, Io("readFile", filePath))
              IN  IF rd.err # "" THEN [err |-> rd.err, patterns |-> patterns, io |-> io2]
                  ELSE scanFiles(tree, via, category, Tail(files),
                           Append(patterns, makeEntry(via, category, file, rd.content)),
                           io2)
         ELSE scanFiles(tree, via, category, Tail(files), patterns, io)

\* the outer loop listing every entry of the root, directory or not
RECURSIVE scanCategories_EveryEntry(_, _, _, _, _)
scanCategories_EveryEntry(tree, via, categories, patterns, io) ==
    IF categories = <<>> THEN [err |-> "", patterns |-> patterns, io |-> io]
    ELSE LET category     == Head(categories)
             categoryPath == pathJoin(<<PatternsDirName, category>>)
             files        == readdir(tree, categoryPath)
             io2          == Append(io, Io("readdir", categoryPath))
         IN  IF files.err # ""
             THEN [err |-> files.err, patterns |-> patterns, io |-> io2]
             ELSE LET inner == scanFiles(tree, via, category, files.names,
                                         patterns, io2)
                  IN  IF inner.err # "" THEN inner
                      ELSE scanCategories_EveryEntry(tree, via, Tail(categories),
                                                     inner.patterns, inner.io)

\* the outer loop, index.js:167-189 and server.js:78-109; [err, patterns, io]
RECURSIVE scanCategories(_, _, _, _, _)
scanCategories(tree, via, categories, patterns, io) ==
    IF categories = <<>> THEN [err |-> "", patterns |-> patterns, io |-> io]
    ELSE LET category     == Head(categories)
             categoryPath == pathJoin(<<PatternsDirName, category>>)
             st           == stat(tree, categoryPath)
             io2          == Append(io, Io("stat", categoryPath))
         IN  IF st.err # "" THEN [err |-> st.err, patterns |-> patterns, io |-> io2]
             ELSE IF st.isDirectory
             THEN LET files == readdir(tree, categoryPath)
                      io3   == Append(io2, Io("readdir", categoryPath))
                  IN
                  IF files.err # ""
                  THEN [err |-> files.err, patterns |-> patterns, io |-> io3]
                  ELSE LET inner == scanFiles(tree, via, category, files.names,
                                              patterns, io3)
                       IN  IF inner.err # "" THEN inner
                           ELSE scanCategories(tree, via, Tail(categories),
                                               inner.patterns, inner.io)
             ELSE scanCategories(tree, via, Tail(categories), patterns, io2)

scan(tree, via) ==
    LET patternsDir == pathJoin(<<PatternsDirName>>)
        categories  == readdir(tree, patternsDir)
        io          == <<Io("readdir", patternsDir)>>
    IN
    IF categories.err # ""
    THEN [err |-> categories.err, patterns |-> NewPatterns, io |-> io]
    ELSE scanCategories(tree, via, categories.names, NewPatterns, io)

\* the scan answering from the tree the first search of the run saw
getPatternList_FirstScanKept(tree) ==
    IF firstSearch.req.via # "none" THEN scan(firstSearch.fs, "mcp")
    ELSE scan(tree, "mcp")

\* PatternLibraryServer.getPatternList, index.js:163-192
getPatternList(tree) == scan(tree, "mcp")

\* getPatternList of server.js:73-112
httpGetPatternList(tree) == scan(tree, "http")

----------------------------------------------------------------------------
(* Requests and responses                                                  *)

\* hasQuery, hasCategory: whether the arguments of the request carry the field
NoReq ==
    [via |-> "none", method |-> "", tool |-> "", uri |-> <<>>, path |-> <<>>,
     category |-> <<>>, name |-> <<>>, query |-> <<>>, hasQuery |-> FALSE,
     hasCategory |-> FALSE]

\* kind: what the response carries; status: the HTTP status (0 on the protocol
\* server); thrown: the protocol handler threw; isError: the tool result's flag;
\* io: the filesystem calls the handler made on the way (not sent)
NoResp ==
    [kind |-> "none", status |-> 0, thrown |-> FALSE, isError |-> FALSE,
     message |-> "", detail |-> <<>>, entries |-> <<>>, text |-> <<>>,
     category |-> <<>>, name |-> <<>>, url |-> <<>>, io |-> <<>>]

\* the response, produced after the filesystem calls io
After(io, response) == [response EXCEPT !.io = io]

\* a protocol handler's rejection: the SDK answers with the error's message
Thrown(message, detail) ==
    [NoResp EXCEPT !.kind = "error", !.thrown = TRUE,
                   !.message = message, !.detail = detail]

\* res.status(status).json({ error: message })
HttpError(status, message) ==
    [NoResp EXCEPT !.kind = "error", !.status = status, !.message = message]

----------------------------------------------------------------------------
(* index.js: the protocol server's handlers                                *)

\* 'pattern:///' of index.js:55 and index.js:66
PatternScheme == <<"p","a","t","t","e","r","n",":","/","/","/">>

\* index.js:54-59
resourceOf(p) ==
    [uri         |-> PatternScheme \o p.category \o <<Slash>> \o p.name,
     name        |-> p.title,
     description |-> p.description,
     mimeType    |-> "text/markdown"]

\* index.js:53-60: what the handler does once getPatternList() has settled
\* as patterns = [err, patterns, io]
listResourcesWith(patterns) ==
    IF patterns.err # "" THEN After(patterns.io, Thrown(patterns.err, <<>>))
    ELSE [NoResp EXCEPT !.kind = "resources", !.io = patterns.io,
              !.entries = [i \in 1..Len(patterns.patterns) |->
                               resourceOf(patterns.patterns[i])]]

\* ListResourcesRequestSchema handler, index.js:51-61
listResources(tree) == listResourcesWith(getPatternList(tree))

\* the match with (.*) for the name: a URI that ends in '/' is let through
uriMatch_NameMayBeEmpty(uri) ==
    LET n      == Len(PatternScheme)
        rest   == SubSeq(uri, n + 1, Len(uri))
        splits == {i \in 2..Len(rest) : rest[i] = Slash}
    IN  IF /\ Len(uri) >= n
           /\ SubSeq(uri, 1, n) = PatternScheme
           /\ \A i \in 1..Len(rest) : ~IsLineTerminator(rest[i])
           /\ splits # {}
        THEN LET i == CHOOSE k \in splits : \A m \in splits : m <= k
             IN  [found |-> TRUE, category |-> SubSeq(rest, 1, i - 1),
                  name |-> SubSeq(rest, i + 1, Len(rest))]
        ELSE [found |-> FALSE, category |-> <<>>, name |-> <<>>]

\* uri.match(/^pattern:\/\/\/(.+)\/(.+)$/), index.js:66: both groups are
\* greedy and '.' matches no line terminator, so the groups split what follows
\* the scheme at its last '/' that leaves both sides non-empty
uriMatch(uri) ==
    LET n      == Len(PatternScheme)
        rest   == SubSeq(uri, n + 1, Len(uri))
        splits == {i \in 2..(Len(rest) - 1) : rest[i] = Slash}
    IN  IF /\ Len(uri) >= n
           /\ SubSeq(uri, 1, n) = PatternScheme
           /\ \A i \in 1..Len(rest) : ~IsLineTerminator(rest[i])
           /\ splits # {}
        THEN LET i == CHOOSE k \in splits : \A m \in splits : m <= k
             IN  [found |-> TRUE, category |-> SubSeq(rest, 1, i - 1),
                  name |-> SubSeq(rest, i + 1, Len(rest))]
        ELSE [found |-> FALSE, category |-> <<>>, name |-> <<>>]

\* the handler without its try/catch: the read's own error leaves it
readResource_NoCatch(tree, uri) ==
    LET match == uriMatch(uri) IN
    IF ~match.found THEN Thrown("Invalid pattern URI", <<>>)
    ELSE LET filePath == pathJoin(<<PatternsDirName, match.category,
                                    match.name \o MdExt>>)
             rd       == readFile(tree, filePath)
             io       == <<Io("readFile", filePath)>>
         IN  IF rd.err = ""
             THEN [NoResp EXCEPT !.kind = "content", !.text = rd.content,
                                 !.url = uri, !.io = io]
             ELSE After(io, Thrown(rd.err, <<>>))

\* ReadResourceRequestSchema handler, index.js:64-87
readResource(tree, uri) ==
    LET match == uriMatch(uri) IN
    IF ~match.found THEN Thrown("Invalid pattern URI", <<>>)
    ELSE LET filePath == pathJoin(<<PatternsDirName, match.category,
                                    match.name \o MdExt>>)
             rd       == readFile(tree, filePath)
             io       == <<Io("readFile", filePath)>>
         IN  IF rd.err = ""
             THEN [NoResp EXCEPT !.kind = "content", !.text = rd.content,
                                 !.url = uri, !.io = io]
             ELSE After(io, Thrown("Pattern not found",
                                   match.category \o <<Slash>> \o match.name))

\* the filter matching the name as well
matchesQuery_AlsoName(p, lowerQuery) ==
    \/ includes(toLowerCase(p.title), lowerQuery)
    \/ includes(toLowerCase(p.description), lowerQuery)
    \/ includes(toLowerCase(p.category), lowerQuery)
    \/ includes(toLowerCase(p.name), lowerQuery)

\* the filter of index.js:198-202
matchesQuery(p, lowerQuery) ==
    \/ includes(toLowerCase(p.title), lowerQuery)
    \/ includes(toLowerCase(p.description), lowerQuery)
    \/ includes(toLowerCase(p.category), lowerQuery)

\* index.js:196-209: what searchPatterns does once getPatternList() has
\* settled; the text is JSON.stringify(matches), carried as the array it encodes
searchPatternsWith(patterns, hasQuery, query) ==
    IF patterns.err # "" THEN After(patterns.io, Thrown(patterns.err, <<>>))
    ELSE IF ~hasQuery                      \* undefined.toLowerCase()
         THEN After(patterns.io, Thrown("TypeError", <<>>))
    ELSE LET lowerQuery == toLowerCase(query)
             Keep(p)    == matchesQuery(p, lowerQuery)
         IN  [NoResp EXCEPT !.kind = "matches", !.io = patterns.io,
                            !.entries = SelectSeq(patterns.patterns, Keep)]

\* searchPatterns, index.js:194-210
searchPatterns(tree, hasQuery, query) ==
    searchPatternsWith(getPatternList(tree), hasQuery, query)

\* getPatternCode reading <category>/<name> without the extension
getPatternCode_NoExtension(tree, category, name) ==
    LET filePath == pathJoin(<<PatternsDirName, category, name>>)
        rd       == readFile(tree, filePath)
        io       == <<Io("readFile", filePath)>>
    IN  IF rd.err = ""
        THEN [NoResp EXCEPT !.kind = "content", !.text = rd.content, !.io = io]
        ELSE [NoResp EXCEPT !.kind = "error", !.isError = TRUE, !.io = io,
                            !.message = "Pattern not found",
                            !.detail = category \o <<Slash>> \o name]

\* getPatternCode, index.js:212-232
getPatternCode(tree, category, name) ==
    LET filePath == pathJoin(<<PatternsDirName, category, name \o MdExt>>)
        rd       == readFile(tree, filePath)
        io       == <<Io("readFile", filePath)>>
    IN  IF rd.err = ""
        THEN [NoResp EXCEPT !.kind = "content", !.text = rd.content, !.io = io]
        ELSE [NoResp EXCEPT !.kind = "error", !.isError = TRUE, !.io = io,
                            !.message = "Pattern not found",
                            !.detail = category \o <<Slash>> \o name]

\* Array.prototype.join('\n') of the lines `- ${p}`
RECURSIVE bulletLines(_)
bulletLines(names) ==
    IF names = <<>> THEN <<>>
    ELSE <<"-", " ">> \o Head(names)
         \o (IF Len(names) > 1 THEN <<"\n">> ELSE <<>>)
         \o bulletLines(Tail(names))

\* every file of the directory reported, whatever its extension
mdNames_EveryFile(files) ==
    [i \in 1..Len(files) |-> replace(files[i], MdExt, <<>>)]

RECURSIVE mdNames(_)
mdNames(files) ==
    IF files = <<>> THEN <<>>
    ELSE IF endsWith(Head(files), MdExt)
         THEN <<replace(Head(files), MdExt, <<>>)>> \o mdNames(Tail(files))
         ELSE mdNames(Tail(files))

\* listPatternsByCategory, index.js:234-256
listPatternsByCategory(tree, category) ==
    LET categoryPath == pathJoin(<<PatternsDirName, category>>)
        files        == readdir(tree, categoryPath)
        io           == <<Io("readdir", categoryPath)>>
    IN  IF files.err = ""
        THEN [NoResp EXCEPT !.kind = "listing", !.io = io,
                  !.text = <<"P","a","t","t","e","r","n","s"," ","i","n"," ">>
                           \o category \o <<":", "\n">>
                           \o bulletLines(mdNames(files.names))]
        ELSE [NoResp EXCEPT !.kind = "error", !.isError = TRUE, !.io = io,
                            !.message = "Category not found",
                            !.detail = category]

\* CallToolRequestSchema handler, index.js:144-160
callTool(tree, r) ==
    CASE r.tool = "search_patterns" -> searchPatterns(tree, r.hasQuery, r.query)
      [] r.tool = "get_pattern_code" ->
             IF r.hasCategory THEN getPatternCode(tree, r.category, r.name)
             ELSE Thrown("TypeError", <<>>)      \* path.join(dir, undefined, ...)
      [] r.tool = "list_patterns_by_category" ->
             IF r.hasCategory THEN listPatternsByCategory(tree, r.category)
             ELSE Thrown("TypeError", <<>>)      \* path.join(dir, undefined)
      [] OTHER -> Thrown("Unknown tool", <<>>)

----------------------------------------------------------------------------
(* server.js: the router and its handlers                                  *)

Lit(text) == [lit |-> TRUE, text |-> text]
Param == [lit |-> FALSE, text |-> <<>>]

sApi == <<"a","p","i">>
sSearch == <<"s","e","a","r","c","h">>
sCategory == <<"c","a","t","e","g","o","r","y">>

\* the routes in the order app.get registers them: server.js:18, 28, 44, 61
Routes ==
    << [handler |-> "list",       path |-> <<Lit(sApi), Lit(PatternsDirName)>>],
       [handler |-> "search",     path |-> <<Lit(sApi), Lit(PatternsDirName), Lit(sSearch)>>],
       [handler |-> "getOne",     path |-> <<Lit(sApi), Lit(PatternsDirName), Param, Param>>],
       [handler |-> "byCategory", path |-> <<Lit(sApi), Lit(PatternsDirName),
                                             Lit(sCategory), Param>>] >>

\* a route matches a path of decoded segments: literals without regard to
\* case (Express's default), a parameter any non-empty segment
routeMatches(route, path) ==
    /\ Len(route.path) = Len(path)
    /\ \A i \in 1..Len(path) :
          IF route.path[i].lit
          THEN toLowerCase(path[i]) = toLowerCase(route.path[i].text)
          ELSE path[i] # <<>>

\* the router runs the first registered route that matches; every handler
\* here answers, none calls next()
routeOf(path) ==
    LET hits == {i \in 1..Len(Routes) : routeMatches(Routes[i], path)} IN
    IF hits = {} THEN "none"
    ELSE Routes[CHOOSE i \in hits : \A j \in hits : i <= j].handler

\* server.js:21-24: what the handler does once getPatternList() has settled
httpListWith(patterns) ==
    IF patterns.err # "" THEN After(patterns.io, HttpError(500, patterns.err))
    ELSE [NoResp EXCEPT !.kind = "entries", !.status = 200, !.io = patterns.io,
                        !.entries = patterns.patterns]

\* GET /api/patterns, server.js:18-25
httpList(tree) == httpListWith(httpGetPatternList(tree))

\* the filter of server.js:32-36
httpMatchesQuery(p, query) ==
    \/ includes(toLowerCase(p.title), toLowerCase(query))
    \/ includes(toLowerCase(p.description), toLowerCase(query))
    \/ includes(toLowerCase(p.category), toLowerCase(query))

\* the search comparing the lower-cased fields with the query as typed
httpSearch_QueryAsTyped(tree, hasQuery, q) ==
    LET query    == IF hasQuery /\ q # <<>> THEN q ELSE <<>>
        patterns == httpGetPatternList(tree)
        Keep(p)  == \/ includes(toLowerCase(p.title), query)
                    \/ includes(toLowerCase(p.description), query)
                    \/ includes(toLowerCase(p.category), query)
    IN  IF patterns.err # "" THEN After(patterns.io, HttpError(500, patterns.err))
        ELSE [NoResp EXCEPT !.kind = "matches", !.status = 200, !.io = patterns.io,
                            !.entries = SelectSeq(patterns.patterns, Keep)]

\* server.js:30-40: what the handler does with the settled getPatternList()
httpSearchWith(patterns, hasQuery, q) ==
    LET query    == IF hasQuery /\ q # <<>> THEN q ELSE <<>>   \* req.query.q || ''
        Keep(p)  == httpMatchesQuery(p, query)
    IN  IF patterns.err # "" THEN After(patterns.io, HttpError(500, patterns.err))
        ELSE [NoResp EXCEPT !.kind = "matches", !.status = 200, !.io = patterns.io,
                            !.entries = SelectSeq(patterns.patterns, Keep)]

\* GET /api/patterns/search, server.js:28-41
httpSearch(tree, hasQuery, q) ==
    httpSearchWith(httpGetPatternList(tree), hasQuery, q)

\* GET /api/patterns/:category/:name, server.js:44-58
httpGetOne(tree, category, name) ==
    LET filePath == pathJoin(<<PatternsDirName, category, name \o MdExt>>)
        rd       == readFile(tree, filePath)
        io       == <<Io("readFile", filePath)>>
    IN  IF rd.err = ""
        THEN [NoResp EXCEPT !.kind = "content", !.status = 200, !.io = io,
                  !.category = category, !.name = name, !.text = rd.content,
                  !.url = UrlPrefix \o category \o <<Slash>> \o name \o MdExt]
        ELSE After(io, HttpError(404, "Pattern not found"))

\* GET /api/patterns/category/:category, server.js:61-70
httpByCategory(tree, category) ==
    LET patterns == httpGetPatternList(tree)
        Keep(p)  == p.category = category
    IN  IF patterns.err # "" THEN After(patterns.io, HttpError(500, patterns.err))
        ELSE [NoResp EXCEPT !.kind = "entries", !.status = 200, !.io = patterns.io,
                            !.entries = SelectSeq(patterns.patterns, Keep)]

\* one GET through the router
httpGet(tree, r) ==
    LET handler == routeOf(r.path) IN
    CASE handler = "list"       -> httpList(tree)
      [] handler = "search"     -> httpSearch(tree, r.hasQuery, r.query)
      [] handler = "getOne"     -> httpGetOne(tree, r.path[3], r.path[4])
      [] handler = "byCategory" -> httpByCategory(tree, r.path[4])
      [] OTHER                  -> HttpError(404, "Cannot GET")

----------------------------------------------------------------------------
(* The trees and the requests the model draws from                          *)

\* the most entries a category directory holds
MaxFiles == 2

Md(base) == base \o MdExt

sAb == <<"A","b">>

\* what a category directory may hold
CategoryEntries ==
    { File(Md(<<"x">>), <<"#"," ","T","\n",">"," ","D">>),
      File(Md(<<"y">>), <<>>),
      File(Md(<<"z">>), <<"q"," ",">"," ","F","\n","#","\n","G">>),
      File(<<"n">>, <<"#"," ","N">>),
      Dir(<<"s">>, <<File(Md(<<"x">>), <<"#"," ","S">>)>>),
      Dir(Md(<<"d">>), <<>>),
      Unreadable(File(Md(<<"u">>), <<"#"," ","U">>)),
      File(MdExt, <<"#"," ","E">>),
      File(Md(MdExt \o <<"x">>), <<"#"," ","P">>),
      File(Md(Md(<<"x">>)), <<"#"," ","Q">>) }

\* the directory listings of at most n entries, no name twice
Listings(pool, n) ==
    UNION { { l \in [1..k -> pool] :
                \A i, j \in 1..k : i # j => l[i].name # l[j].name } : k \in 0..n }

\* what the patterns directory may hold beside the category Ab
RootExtras ==
    { File(Md(<<"x">>), <<"#"," ","R">>),
      Dir(sCategory, <<File(Md(sAb), <<"#"," ","C">>)>>),
      Dir(<<"b">>, <<File(Md(<<"x">>), <<">"," ","a","b">>)>>),
      Unreadable(Dir(<<"k">>, <<>>)) }

\* the category Ab alone; with one entry less in it, followed by one of the
\* extras, or after the category b
RootListings ==
    LET cats == {Dir(sAb, l) : l \in Listings(CategoryEntries, MaxFiles)}
        few  == {Dir(sAb, l) : l \in Listings(CategoryEntries, MaxFiles - 1)}
    IN  {<<c>> : c \in cats}
        \cup {<<c, e>> : c \in few, e \in RootExtras}
        \cup {<<e, c>> : c \in few, e \in {x \in RootExtras : x.name = <<"b">>}}

\* __dirname: README.md (as R.md) beside patterns/
Trees ==
    { Dir(<<>>, <<File(Md(<<"R">>), <<"#"," ","M">>), Dir(PatternsDirName, l)>>) :
        l \in RootListings }

CategoryArgs ==
    { sAb, <<"a","b">>, <<"A","b","/","s">>, DotDot, <<>>, sCategory }

NameArgs ==
    { <<"x">>, <<>>, <<"s","/","x">>, <<"R">>, sAb, <<"d">>, <<"u">>, <<"\n">>,
      Md(<<"x">>), MdExt \o <<"x">> }

QueryArgs ==
    { <<>>, <<"a","b">>, <<"A","B">>, <<"t">>, <<"x">>, <<"d">>,
      <<"r","o","u","t","e","r">> }

\* the (category, name) pairs asked for: every name in the category Ab, the
\* names x and '' in every category, README beside the root, /category/Ab
ReadArgs ==
    { p \in CategoryArgs \X NameArgs :
        \/ p[1] = sAb
        \/ p[2] \in {<<"x">>, <<>>}
        \/ p = <<DotDot, <<"R">> >>
        \/ p = <<sCategory, sAb>> }

UriArgs ==
    { PatternScheme \o p[1] \o <<Slash>> \o p[2] : p \in ReadArgs }
    \cup { <<>>, PatternScheme, SubSeq(PatternScheme, 1, 10) \o sAb \o <<Slash, "x">> }

ToolCalls ==
    { [NoReq EXCEPT !.via = "mcp", !.method = "tools/call",
                    !.tool = "search_patterns", !.hasQuery = TRUE, !.query = q] :
        q \in QueryArgs }
    \cup { [NoReq EXCEPT !.via = "mcp", !.method = "tools/call",
                         !.tool = "search_patterns"] }
    \cup { [NoReq EXCEPT !.via = "mcp", !.method = "tools/call",
                         !.tool = "get_pattern_code", !.hasCategory = TRUE,
                         !.category = p[1], !.name = p[2]] : p \in ReadArgs }
    \cup { [NoReq EXCEPT !.via = "mcp", !.method = "tools/call",
                         !.tool = "list_patterns_by_category",
                         !.hasCategory = TRUE, !.category = c] :
             c \in CategoryArgs }
    \cup { [NoReq EXCEPT !.via = "mcp", !.method = "tools/call",
                         !.tool = "list_patterns_by_category"] }
    \cup { [NoReq EXCEPT !.via = "mcp", !.method = "tools/call", !.tool = "other"] }

HttpPaths ==
    { <<sApi>>, <<sApi, PatternsDirName>> }
    \cup { <<sApi, PatternsDirName, p[1], p[2]>> : p \in ReadArgs }

HttpRequests ==
    { [NoReq EXCEPT !.via = "http", !.method = "GET", !.path = p] : p \in HttpPaths }
    \cup { [NoReq EXCEPT !.via = "http", !.method = "GET",
                         !.path = <<sApi, PatternsDirName, sSearch>>,
                         !.hasQuery = TRUE, !.query = q] : q \in QueryArgs }
    \cup { [NoReq EXCEPT !.via = "http", !.method = "GET",
                         !.path = <<sApi, PatternsDirName, sSearch>>] }

----------------------------------------------------------------------------
(* The state machine: one request at a time, answered by its handler        *)

\* the most requests counted after the first search
MaxLater == 2

\* the most requests in flight at once
MaxInFlight == 2

\* the activation of an async handler. pc: the await it is suspended at;
\* categories, files: what its two loops have still to visit, the current one
\* first; patterns: its array; io: the filesystem calls it has made; seen (a
\* history): the trees an outside writer has replaced since it started
Idle ==
    [pc |-> "idle", req |-> NoReq, categories |-> <<>>, files |-> <<>>,
     patterns |-> <<>>, io |-> <<>>, resp |-> NoResp,
     seen |-> <<>>]

NoTasks == [i \in 1..MaxInFlight |-> Idle]

\* recording: whether this run keeps the history; req = NoReq: nothing kept
\* yet; fs: the tree the first search ran on; later: the requests answered
\* since, counted up to MaxLater
NoSearch ==
    [recording |-> TRUE, req |-> NoReq, resp |-> NoResp, fs |-> <<>>, later |-> 0]

IsSearch(r) ==
    \/ r.via = "mcp" /\ r.method = "tools/call" /\ r.tool = "search_patterns"
    \/ r.via = "http" /\ routeOf(r.path) = "search"

\* the history variable: the first search answered
Remember(r, answer) ==
    firstSearch' =
        IF firstSearch = NoSearch /\ IsSearch(r)
        THEN [firstSearch EXCEPT !.req = r, !.resp = answer, !.fs = fs]
        ELSE IF firstSearch.req # NoReq /\ firstSearch.later < MaxLater
        THEN [firstSearch EXCEPT !.later = @ + 1]
        ELSE firstSearch

Init ==
    /\ fs \in Trees
    /\ req = NoReq
    /\ resp = NoResp
    /\ firstSearch = [NoSearch EXCEPT !.recording = FALSE]
    /\ tasks = NoTasks

\* the runs that keep the history of the first search, on the trees that hold
\* the category Ab alone, with markdown files of one-letter names in it
InitHistory ==
    /\ fs \in {t \in Trees :
                /\ Len(t.entries[2].entries) = 1
                /\ \A i \in 1..Len(t.entries[2].entries[1].entries) :
                      LET e == t.entries[2].entries[1].entries[i] IN
                      e.kind = "file" /\ endsWith(e.name, MdExt) /\ Len(e.name) = 4}
    /\ req = NoReq
    /\ resp = NoResp
    /\ firstSearch = NoSearch
    /\ tasks = NoTasks

ListResources ==
    /\ req = NoReq
    /\ req' = [NoReq EXCEPT !.via = "mcp", !.method = "resources/list"]
    /\ resp' = listResources(fs)
    /\ Remember(req', resp')
    /\ UNCHANGED <<fs, tasks>>

ReadResource ==
    /\ req = NoReq
    /\ \E uri \in UriArgs :
          /\ req' = [NoReq EXCEPT !.via = "mcp", !.method = "resources/read",
                                  !.uri = uri]
          /\ resp' = readResource(fs, uri)
          /\ Remember(req', resp')
    /\ UNCHANGED <<fs, tasks>>

CallTool ==
    /\ req = NoReq
    /\ \E r \in ToolCalls :
          /\ req' = r
          /\ resp' = callTool(fs, r)
          /\ Remember(r, callTool(fs, r))
    /\ UNCHANGED <<fs, tasks>>

\* the router keeping an access log beside the patterns directory
HttpGet_KeepsLog ==
    /\ req = NoReq
    /\ \E r \in HttpRequests :
          /\ req' = r
          /\ resp' = httpGet(fs, r)
          /\ Remember(r, httpGet(fs, r))
    /\ fs' = [fs EXCEPT !.entries = Append(@, File(<<"l","o","g">>, <<>>))]
    /\ UNCHANGED tasks

HttpGet ==
    /\ req = NoReq
    /\ \E r \in HttpRequests :
          /\ req' = r
          /\ resp' = httpGet(fs, r)
          /\ Remember(r, httpGet(fs, r))
    /\ UNCHANGED <<fs, tasks>>

\* the response leaves; nothing of the request stays behind
Deliver ==
    /\ req # NoReq
    /\ req' = NoReq
    /\ resp' = NoResp
    /\ UNCHANGED <<fs, firstSearch, tasks>>

Next ==
    \/ ListResources
    \/ ReadResource
    \/ CallTool
    \/ HttpGet
    \/ Deliver

Spec == Init /\ [][Next]_vars

SpecHistory == InitHistory /\ [][Next]_vars

----------------------------------------------------------------------------
(* The pattern files change between two requests                            *)

\* the most files the category holds while files come and go
MaxChanging == 1

\* x.md as first written and as rewritten, and a file that cannot be read
ChangingEntries ==
    { File(Md(<<"x">>), <<"#"," ","T","\n",">"," ","D">>),
      File(Md(<<"x">>), <<"#"," ","V">>),
      Unreadable(File(Md(<<"u">>), <<"#"," ","U">>)) }

Holding(listing) ==
    Dir(<<>>, <<File(Md(<<"R">>), <<"#"," ","M">>),
                Dir(PatternsDirName, <<Dir(sAb, listing)>>)>>)

ChangingTrees == { Holding(l) : l \in Listings(ChangingEntries, MaxChanging) }

RemoveAt(l, i) == SubSeq(l, 1, i - 1) \o SubSeq(l, i + 1, Len(l))

\* listing l2 is l1 with one file added, removed or rewritten
OneFileApart(l1, l2) ==
    \/ \E i \in 1..Len(l2) : RemoveAt(l2, i) = l1
    \/ \E i \in 1..Len(l1) : RemoveAt(l1, i) = l2
    \/ /\ Len(l1) = Len(l2)
       /\ \E i \in 1..Len(l1) :
             /\ l1[i].name = l2[i].name /\ l1[i] # l2[i]
             /\ RemoveAt(l1, i) = RemoveAt(l2, i)

InitChanging ==
    /\ fs \in ChangingTrees
    /\ req = NoReq
    /\ resp = NoResp
    /\ firstSearch = NoSearch
    /\ tasks = NoTasks

\* between two requests someone adds, removes or rewrites a pattern file
ChangeFiles ==
    /\ req = NoReq
    /\ \E l \in Listings(ChangingEntries, MaxChanging) :
          /\ OneFileApart(fs.entries[2].entries[1].entries, l)
          /\ fs' = Holding(l)
    /\ UNCHANGED <<req, resp, firstSearch, tasks>>

NextChanging ==
    \/ Next
    \/ ChangeFiles

SpecChanging == InitChanging /\ [][NextChanging]_vars

----------------------------------------------------------------------------
(* Several requests in flight: a handler runs from one await to the next,   *)
(* and the handlers' steps interleave                                       *)

\* the request awaits getPatternList()
AwaitsScan(r) ==
    \/ r.via = "mcp" /\ r.method = "resources/list"
    \/ r.via = "mcp" /\ r.method = "tools/call" /\ r.tool = "search_patterns"
    \/ r.via = "http" /\ routeOf(r.path) \in {"list", "search"}

\* what the handler of r does once its getPatternList() has settled
respond(r, patterns) ==
    IF r.via = "http"
    THEN IF routeOf(r.path) = "list" THEN httpListWith(patterns)
         ELSE httpSearchWith(patterns, r.hasQuery, r.query)
    ELSE IF r.method = "resources/list" THEN listResourcesWith(patterns)
         ELSE searchPatternsWith(patterns, r.hasQuery, r.query)

\* getPatternList() returns, index.js:191 and server.js:111
returned(f) ==
    [f EXCEPT !.pc = "done", !.categories = <<>>, !.files = <<>>,
              !.resp = respond(f.req, [err |-> "", patterns |-> f.patterns,
                                       io |-> f.io])]

\* an awaited filesystem call rejects and the scan issues the call again
thrown_TriesAgain(f, err) == f

\* an awaited filesystem call rejects: getPatternList() throws
thrown(f, err) ==
    [f EXCEPT !.pc = "done",
              !.resp = respond(f.req, [err |-> err, patterns |-> f.patterns,
                                       io |-> f.io])]

\* 'for (const category of categories)': on to the next category, or return
nextCategory(f, categories) ==
    IF categories = <<>> THEN returned(f)
    ELSE [f EXCEPT !.categories = categories, !.files = <<>>, !.pc = "stat"]

\* 'if (file.endsWith('.md'))' passing over the other names
RECURSIVE dropUntilMd(_)
dropUntilMd(files) ==
    IF files = <<>> \/ endsWith(Head(files), MdExt) THEN files
    ELSE dropUntilMd(Tail(files))

\* 'for (const file of files)': on to the next markdown name, or out of the loop
nextFile(f, files) ==
    IF dropUntilMd(files) # <<>>
    THEN [f EXCEPT !.files = dropUntilMd(files), !.pc = "readFile"]
    ELSE nextCategory(f, Tail(f.categories))

\* one array that every scan in flight pushes to
push_SharedArray(ts, i, entry) ==
    [j \in DOMAIN ts |->
        IF ts[j].pc \in {"stat", "readdirCategory", "readFile"}
        THEN [ts[j] EXCEPT !.patterns = Append(@, entry)]
        ELSE ts[j]]

\* patterns.push(...), index.js:180 and server.js:99: request i's own array
push(ts, i, entry) == [ts EXCEPT ![i].patterns = Append(@, entry)]

\* the trees the interleaved runs scan: the category b before the category Ab,
\* which holds one entry
ConcurrentEntries ==
    { File(Md(<<"x">>), <<"#"," ","T","\n",">"," ","D">>),
      File(<<"n">>, <<"#"," ","N">>),
      Unreadable(File(Md(<<"u">>), <<"#"," ","U">>)) }

ConcurrentTrees ==
    { Dir(<<>>, <<File(Md(<<"R">>), <<"#"," ","M">>),
                  Dir(PatternsDirName,
                      <<Dir(<<"b">>, <<File(Md(<<"x">>), <<">"," ","a","b">>)>>),
                        Dir(sAb, <<e>>)>>)>>) : e \in ConcurrentEntries }

\* the requests of the interleaved runs
ConcurrentRequests ==
    { [NoReq EXCEPT !.via = "mcp", !.method = "resources/list"],
      [NoReq EXCEPT !.via = "mcp", !.method = "tools/call",
                    !.tool = "search_patterns", !.hasQuery = TRUE,
                    !.query = <<"t">>],
      [NoReq EXCEPT !.via = "mcp", !.method = "tools/call",
                    !.tool = "get_pattern_code", !.hasCategory = TRUE,
                    !.category = sAb, !.name = <<"x">>],
      [NoReq EXCEPT !.via = "http", !.method = "GET",
                    !.path = <<sApi, PatternsDirName>>],
      [NoReq EXCEPT !.via = "http", !.method = "GET",
                    !.path = <<sApi, PatternsDirName, sSearch>>,
                    !.hasQuery = TRUE, !.query = <<"a","b">>],
      [NoReq EXCEPT !.via = "http", !.method = "GET",
                    !.path = <<sApi, PatternsDirName, sAb, <<"u">> >>] }

InitConcurrent ==
    /\ fs \in ConcurrentTrees
    /\ req = NoReq
    /\ resp = NoResp
    /\ firstSearch = [NoSearch EXCEPT !.recording = FALSE]
    /\ tasks = NoTasks

\* a request arrives and its handler starts: 'const patterns = []', then the
\* first await
Begin(i) ==
    /\ tasks[i].pc = "idle"
    /\ \E r \in ConcurrentRequests :
          tasks' = [tasks EXCEPT ![i] =
                       [Idle EXCEPT !.req = r, !.patterns = NewPatterns,
                                    !.pc = IF AwaitsScan(r) THEN "readdir"
                                           ELSE "readOne"]]
    /\ UNCHANGED <<fs, req, resp, firstSearch>>

\* 'await fs.readdir(patternsDir)' settles, index.js:165 and server.js:76
ReaddirRoot(i) ==
    /\ tasks[i].pc = "readdir"
    /\ LET patternsDir == pathJoin(<<PatternsDirName>>)
           categories  == readdir(fs, patternsDir)
           f           == [tasks[i] EXCEPT !.io = Append(@, Io("readdir", patternsDir))]
       IN  tasks' = [tasks EXCEPT ![i] =
                        IF categories.err # "" THEN thrown(f, categories.err)
                        ELSE nextCategory(f, categories.names)]
    /\ UNCHANGED <<fs, req, resp, firstSearch>>

\* 'await fs.stat(categoryPath)' settles, index.js:169 and server.js:80
Stat(i) ==
    /\ tasks[i].pc = "stat"
    /\ LET categoryPath == pathJoin(<<PatternsDirName, Head(tasks[i].categories)>>)
           st           == stat(fs, categoryPath)
           f            == [tasks[i] EXCEPT !.io = Append(@, Io("stat", categoryPath))]
       IN  tasks' = [tasks EXCEPT ![i] =
                        IF st.err # "" THEN thrown(f, st.err)
                        ELSE IF st.isDirectory
                             THEN [f EXCEPT !.pc = "readdirCategory"]
                             ELSE nextCategory(f, Tail(f.categories))]
    /\ UNCHANGED <<fs, req, resp, firstSearch>>

\* 'await fs.readdir(categoryPath)' settles, index.js:172 and server.js:83
ReaddirCategory(i) ==
    /\ tasks[i].pc = "readdirCategory"
    /\ LET categoryPath == pathJoin(<<PatternsDirName, Head(tasks[i].categories)>>)
           files        == readdir(fs, categoryPath)
           f            == [tasks[i] EXCEPT
                               !.io = Append(@, Io("readdir", categoryPath))]
       IN  tasks' = [tasks EXCEPT ![i] =
                        IF files.err # "" THEN thrown(f, files.err)
                        ELSE nextFile(f, files.names)]
    /\ UNCHANGED <<fs, req, resp, firstSearch>>

\* 'await fs.readFile(...)' of the scan settles and the entry is pushed,
\* index.js:176-185 and server.js:88-105
ReadFile(i) ==
    /\ tasks[i].pc = "readFile"
    /\ LET category == Head(tasks[i].categories)
           file     == Head(tasks[i].files)
           filePath == pathJoin(<<PatternsDirName, category, file>>)
           rd       == readFile(fs, filePath)
           f        == [tasks[i] EXCEPT !.io = Append(@, Io("readFile", filePath))]
           ts       == push([tasks EXCEPT ![i] = f], i,
                            makeEntry(f.req.via, category, file, rd.content))
       IN  tasks' = IF rd.err # "" THEN [tasks EXCEPT ![i] = thrown(f, rd.err)]
                    ELSE [ts EXCEPT ![i] = nextFile(ts[i], Tail(ts[i].files))]
    /\ UNCHANGED <<fs, req, resp, firstSearch>>

\* a get whose failed read is left uncaught: the rejection ends the process
\* and with it every request in flight
ReadOne_RejectionEndsAll(i) ==
    /\ tasks[i].pc = "readOne"
    /\ LET answer == IF tasks[i].req.via = "http" THEN httpGet(fs, tasks[i].req)
                     ELSE callTool(fs, tasks[i].req)
       IN  tasks' = IF answer.kind = "error" THEN NoTasks
                    ELSE [tasks EXCEPT ![i].pc = "done", ![i].resp = answer]
    /\ UNCHANGED <<fs, req, resp, firstSearch>>

\* the single 'await fs.readFile(filePath)' of a get settles, index.js:216
\* and server.js:48
ReadOne(i) ==
    /\ tasks[i].pc = "readOne"
    /\ tasks' = [tasks EXCEPT ![i].pc = "done",
                              ![i].resp = IF tasks[i].req.via = "http"
                                          THEN httpGet(fs, tasks[i].req)
                                          ELSE callTool(fs, tasks[i].req)]
    /\ UNCHANGED <<fs, req, resp, firstSearch>>

\* the response of request i leaves and its activation ends
Reply(i) ==
    /\ tasks[i].pc = "done"
    /\ tasks' = [tasks EXCEPT ![i] = Idle]
    /\ UNCHANGED <<fs, req, resp, firstSearch>>

NextConcurrent ==
    \E i \in 1..MaxInFlight :
        \/ Begin(i)
        \/ ReaddirRoot(i)
        \/ Stat(i)
        \/ ReaddirCategory(i)
        \/ ReadFile(i)
        \/ ReadOne(i)
        \/ Reply(i)

SpecConcurrent == InitConcurrent /\ [][NextConcurrent]_vars

----------------------------------------------------------------------------
(* What is on disk, as the operating system resolves a path                 *)

\* the node the path of segments names below __dirname, resolved one segment
\* at a time: every segment but an empty one needs a directory to start from
RECURSIVE OsWalk(_, _, _)
OsWalk(tree, at, segs) ==
    LET here == lookup(tree, at) IN
    IF segs = <<>> \/ here.err # "" THEN here
    ELSE IF Head(segs) = <<>> THEN OsWalk(tree, at, Tail(segs))
    ELSE IF here.node.kind # "dir" THEN [err |-> "ENOTDIR", node |-> NoNode]
    ELSE IF Head(segs) = Dot THEN OsWalk(tree, at, Tail(segs))
    ELSE IF Head(segs) = DotDot
         THEN IF at = <<>> THEN [err |-> "ENOENT", node |-> NoNode]
              ELSE OsWalk(tree, SubSeq(at, 1, Len(at) - 1), Tail(segs))
    ELSE OsWalk(tree, Append(at, Head(segs)), Tail(segs))

\* <root>/<category>/<name>.md
OnDisk(tree, category, name) ==
    OsWalk(tree, <<>>,
           split(PatternsDirName \o <<Slash>> \o category \o <<Slash>> \o name \o MdExt))

IsReadableFile(r) == r.err = "" /\ r.node.kind = "file" /\ r.node.readable

IsNoFile(r) == r.err # "" \/ r.node.kind # "file"

\* the front-end through which the request in hand reads one pattern
ViaTool == req.via = "mcp" /\ req.tool = "get_pattern_code"

ViaResource == req.via = "mcp" /\ req.method = "resources/read"

ViaHttp == req.via = "http" /\ Len(req.path) = 4

\* the request in hand asks for the pattern (category, name)
AsksFor(category, name) ==
    \/ ViaTool /\ req.category = category /\ req.name = name
    \/ ViaResource /\ req.uri = PatternScheme \o category \o <<Slash>> \o name
    \/ ViaHttp /\ req.path = <<sApi, PatternsDirName, category, name>>

HasLineTerminator(s) == \E i \in 1..Len(s) : IsLineTerminator(s[i])

\* the pairs a front-end can carry: the tool any two strings, a URL two
\* non-empty segments, a pattern URI two non-empty strings on one line
Carries(category, name) ==
    \/ ViaTool
    \/ ViaHttp /\ category # <<>> /\ name # <<>>
    \/ ViaResource /\ category # <<>> /\ name # <<>>
                   /\ ~HasLineTerminator(category) /\ ~HasLineTerminator(name)

ReturnsText(text) == resp.kind = "content" /\ resp.text = text

----------------------------------------------------------------------------
(* C1: readOne returns the raw text of a file that is on disk               *)

\* C1 as claimed: for every pair (category, name) whose file
\* <root>/<category>/<name>.md exists and is readable, each front-end returns
\* exactly the file's text.
C1_AsClaimed ==
    \A c \in CategoryArgs, n \in NameArgs :
        (AsksFor(c, n) /\ IsReadableFile(OnDisk(fs, c, n)))
            => ReturnsText(OnDisk(fs, c, n).node.content)

\* C1, amended: the same for every pair the front-end can carry: any two
\* strings on the tool, non-empty ones in a URL, non-empty ones without a line
\* terminator in a pattern URI.
C1_ReadOneReturnsText ==
    \A c \in CategoryArgs, n \in NameArgs :
        (AsksFor(c, n) /\ Carries(c, n) /\ IsReadableFile(OnDisk(fs, c, n)))
            => ReturnsText(OnDisk(fs, c, n).node.content)

\* a pattern URI whose category holds a '/' was read and answered with the
\* text of the nested file
C1_Witness ==
    /\ ViaResource
    /\ AsksFor(<<"A","b","/","s">>, <<"x">>)
    /\ IsReadableFile(OnDisk(fs, <<"A","b","/","s">>, <<"x">>))
    /\ ReturnsText(<<"#"," ","S">>)

----------------------------------------------------------------------------
(* C2: readOne of a file that is not on disk ends in NotFound               *)

NotFoundOutcome ==
    /\ resp.kind = "error"
    /\ IF req.via = "http" THEN resp.status = 404
       ELSE (resp.isError \/ resp.thrown) /\ resp.message = "Pattern not found"

\* C2 as claimed: for every pair whose file does not exist, each front-end
\* ends in NotFound (HTTP 404; on the protocol server an error whose message
\* starts with 'Pattern not found') and returns no content.
C2_AsClaimed ==
    \A c \in CategoryArgs, n \in NameArgs :
        (AsksFor(c, n) /\ IsNoFile(OnDisk(fs, c, n))) => NotFoundOutcome

\* C2, amended: the same for every pair the front-end can carry.
C2_AbsentIsNotFound ==
    \A c \in CategoryArgs, n \in NameArgs :
        (AsksFor(c, n) /\ Carries(c, n) /\ IsNoFile(OnDisk(fs, c, n)))
            => NotFoundOutcome

\* the tool was asked for a pattern of a category that holds no such file and
\* answered 'Pattern not found'
C2_Witness ==
    /\ ViaTool
    /\ AsksFor(sAb, <<"x">>)
    /\ OnDisk(fs, sAb, <<"x">>).err = "ENOENT"
    /\ resp.isError /\ resp.message = "Pattern not found"

----------------------------------------------------------------------------
(* search                                                                   *)

\* the catalog listAll() returns on the front-end of the request in hand
Catalog == IF req.via = "http" THEN httpGetPatternList(fs) ELSE getPatternList(fs)

\* the query string the search in hand carries: a missing q of the URL reads ''
SearchesFor(q) ==
    /\ IsSearch(req)
    /\ \/ req.hasQuery /\ req.query = q
       \/ req.via = "http" /\ ~req.hasQuery /\ q = <<>>

\* q occurs in s as it stands: s = before \o q \o after
IsSubstring(q, s) ==
    \E i \in 0..Len(s) : \E j \in i..Len(s) : SubSeq(s, i + 1, j) = q

\* the entry matches q by its title, description or category, cases folded
MatchesFolded(e, q) ==
    \/ IsSubstring(toLowerCase(q), toLowerCase(e.title))
    \/ IsSubstring(toLowerCase(q), toLowerCase(e.description))
    \/ IsSubstring(toLowerCase(q), toLowerCase(e.category))

\* the positions of seq kept by resp.entries, were it a subsequence of seq:
\* it is one exactly if it is seq restricted to some set of its positions
RECURSIVE Restrict(_, _, _)
Restrict(seq, keep, i) ==
    IF i > Len(seq) THEN <<>>
    ELSE (IF i \in keep THEN <<seq[i]>> ELSE <<>>) \o Restrict(seq, keep, i + 1)

\* C3: search(q) returns exactly the entries of listAll() whose title,
\* description or category contains q once both sides are lower-cased, each
\* once and in listAll() order; the name is not a matched field.
C3_SearchIsTheMatchingSubsequence ==
    \A q \in QueryArgs :
        (SearchesFor(q) /\ Catalog.err = "") =>
            /\ resp.kind = "matches"
            /\ resp.entries =
                   Restrict(Catalog.patterns,
                            {i \in 1..Len(Catalog.patterns) :
                                 MatchesFolded(Catalog.patterns[i], q)}, 1)

\* a search for 'x' over a catalog that holds the entry named x, titled T,
\* returned without it
C3_Witness ==
    /\ SearchesFor(<<"x">>)
    /\ resp.kind = "matches"
    /\ \E i \in 1..Len(Catalog.patterns) :
          /\ Catalog.patterns[i].name = <<"x">>
          /\ Catalog.patterns[i].title = <<"T">>
          /\ \A j \in 1..Len(resp.entries) : resp.entries[j] # Catalog.patterns[i]
    /\ resp.entries # <<>>

\* what listAll() answers on the front-end of the request in hand
ListAllAnswer == IF req.via = "http" THEN httpList(fs) ELSE listResources(fs)

\* the entries as listAll() of the front-end presents them
Presented(entries) ==
    IF req.via = "http" THEN entries
    ELSE [i \in 1..Len(entries) |-> resourceOf(entries[i])]

\* C4: search with the empty query, or on the HTTP router without a q
\* parameter, returns the sequence listAll() returns (and fails as listAll()
\* fails when the scan fails).
C4_EmptyQueryIsListAll ==
    SearchesFor(<<>>) =>
        IF ListAllAnswer.kind = "error"
        THEN resp.kind = "error" /\ resp.message = ListAllAnswer.message
        ELSE resp.kind = "matches"
             /\ Presented(resp.entries) = ListAllAnswer.entries

\* a GET of /api/patterns/search without q answered with a catalog of two
\* entries, one of them with an empty description
C4_Witness ==
    /\ req.via = "http" /\ IsSearch(req) /\ ~req.hasQuery
    /\ resp.kind = "matches"
    /\ Len(resp.entries) = 2
    /\ \E i \in 1..2 : resp.entries[i].description = <<>>

\* q1 and q2 differ at most in the case of their letters
SameLetters(q1, q2) ==
    /\ Len(q1) = Len(q2)
    /\ \A i \in 1..Len(q1) :
          \/ q1[i] = q2[i]
          \/ \E k \in 1..Len(UpperLetters) :
                {q1[i], q2[i]} = {UpperLetters[k], LowerLetters[k]}

\* C5: two searches whose queries differ only in letter case return the same
\* sequence: the search in hand against the first search of the run, on the
\* same front-end.
C5_QueryCaseDoesNotMatter ==
    ( /\ IsSearch(req) /\ req.hasQuery
      /\ firstSearch.req.via = req.via /\ firstSearch.req.hasQuery
      /\ SameLetters(firstSearch.req.query, req.query) )
        => resp = firstSearch.resp

\* 'AB' was searched first and 'ab' now, and both found the same two entries
C5_Witness ==
    /\ IsSearch(req) /\ req.query = <<"a","b">>
    /\ firstSearch.req.via = req.via
    /\ firstSearch.req.query = <<"A","B">>
    /\ firstSearch.later > 0
    /\ Len(resp.entries) = 2
    /\ resp.entries = firstSearch.resp.entries

----------------------------------------------------------------------------
(* listByCategory and the list-by-category route                            *)

\* String.prototype.split on '\n', of the claims' side
RECURSIVE Lines(_)
Lines(text) ==
    IF \E i \in 1..Len(text) : text[i] = "\n"
    THEN LET i == CHOOSE k \in 1..Len(text) :
                      text[k] = "\n" /\ \A m \in 1..(k - 1) : text[m] # "\n"
         IN  <<SubSeq(text, 1, i - 1)>> \o Lines(SubSeq(text, i + 1, Len(text)))
    ELSE <<text>>

\* the names a listing reports: its lines after the first, without their '- '
ListedNames(text) ==
    LET lines == Lines(text)
        body  == SubSeq(lines, 2, Len(lines))
    IN  IF body = << <<>> >> THEN <<>>
        ELSE [i \in 1..Len(body) |-> SubSeq(body[i], 3, Len(body[i]))]

\* the names of the catalog entries whose category is c exactly
RECURSIVE NamesOfCategory(_, _)
NamesOfCategory(entries, c) ==
    IF entries = <<>> THEN <<>>
    ELSE (IF Head(entries).category = c THEN <<Head(entries).name>> ELSE <<>>)
         \o NamesOfCategory(Tail(entries), c)

ListsCategory(c) ==
    \/ /\ req.via = "mcp" /\ req.tool = "list_patterns_by_category"
       /\ req.hasCategory /\ req.category = c
    \/ /\ req.via = "http"
       /\ req.path = <<sApi, PatternsDirName, sCategory, c>>

\* C7 as claimed: whenever listByCategory(c) yields a list, it holds exactly
\* the listAll() entries whose category equals c, in listAll() order, for
\* every string c.
C7_AsClaimed ==
    \A c \in CategoryArgs \cup NameArgs :
        (ListsCategory(c) /\ Catalog.err = "") =>
            /\ resp.kind = "listing" =>
                   ListedNames(resp.text) = NamesOfCategory(Catalog.patterns, c)
            /\ resp.kind = "entries" =>
                   /\ \A i \in 1..Len(resp.entries) : resp.entries[i].category = c
                   /\ [i \in 1..Len(resp.entries) |-> resp.entries[i].name]
                          = NamesOfCategory(Catalog.patterns, c)

\* C8 as claimed: a GET of /api/patterns/category/<c> is dispatched to the
\* list-by-category handler and answered 200 with the entries of category c,
\* never to the get-one handler with category = 'category' and name = c.
C8_AsClaimed ==
    \A c \in NameArgs :
        ( /\ req.via = "http" /\ c # <<>>
          /\ req.path = <<sApi, PatternsDirName, sCategory, c>> ) =>
            /\ routeOf(req.path) = "byCategory"
            /\ Catalog.err = "" =>
                   /\ resp.status = 200 /\ resp.kind = "entries"
                   /\ [i \in 1..Len(resp.entries) |-> resp.entries[i].name]
                          = NamesOfCategory(Catalog.patterns, c)

----------------------------------------------------------------------------
(* listAll: one entry per markdown name, and what its title and description *)
(* are                                                                      *)

\* the patterns directory
Root(tree) == lookup(tree, <<PatternsDirName>>).node

HasMdName(node) ==
    \E base \in {SubSeq(node.name, 1, k) : k \in 0..Len(node.name)} :
        node.name = base \o <<".", "m", "d">>

\* the entries of the immediate subdirectories of the root whose name ends in
\* the extension, in directory order: [category, node]
RECURSIVE MdEntriesOf(_)
MdEntriesOf(rootEntries) ==
    IF rootEntries = <<>> THEN <<>>
    ELSE LET dir == Head(rootEntries)
             md  == SelectSeq(dir.entries, HasMdName)
         IN  (IF dir.kind = "dir"
              THEN [i \in 1..Len(md) |-> [category |-> dir.name, node |-> md[i]]]
              ELSE <<>>)
             \o MdEntriesOf(Tail(rootEntries))

MdEntries == MdEntriesOf(Root(fs).entries)

\* the root and every category directory can be listed
DirectoriesReadable ==
    /\ Root(fs).readable
    /\ \A i \in 1..Len(Root(fs).entries) :
          Root(fs).entries[i].kind = "dir" => Root(fs).entries[i].readable

\* every markdown name is a file that can be read
MdEntriesReadable ==
    \A i \in 1..Len(MdEntries) :
        MdEntries[i].node.kind = "file" /\ MdEntries[i].node.readable

IsListAll ==
    \/ req.via = "mcp" /\ req.method = "resources/list"
    \/ req.via = "http" /\ req.path = <<sApi, PatternsDirName>>

ListAllOk == resp.kind \in {"resources", "entries"}

\* the entry of the answer stands for the markdown name: it carries its
\* category and the name made of its file name
StandsFor(entry, md) ==
    LET name == replace(md.node.name, MdExt, <<>>) IN
    IF req.via = "http"
    THEN entry.category = md.category /\ entry.name = name
    ELSE entry.uri = PatternScheme \o md.category \o <<Slash>> \o name

OneEntryPerMdName ==
    /\ Len(resp.entries) = Len(MdEntries)
    /\ \A i \in 1..Len(MdEntries) : StandsFor(resp.entries[i], MdEntries[i])

\* C9 as claimed: listAll() yields exactly one entry per directory entry with
\* a markdown name in an immediate subdirectory of the root, and a scan that
\* meets such a name always produces its entry rather than failing.
C9_AsClaimed ==
    (IsListAll /\ DirectoriesReadable) => ListAllOk /\ OneEntryPerMdName

\* C9, amended: listAll() succeeds exactly when every such directory entry is
\* a file that can be read (the directories being readable), and then it
\* yields exactly one entry per such directory entry, in order, also for a
\* file without heading or blockquote.
C9_OneEntryPerReadableMdFile ==
    (IsListAll /\ DirectoriesReadable) =>
        IF MdEntriesReadable THEN ListAllOk /\ OneEntryPerMdName
        ELSE resp.kind = "error"

\* listAll() answered with two entries, one of them for the empty file y.md
C9_Witness ==
    /\ IsListAll /\ ListAllOk
    /\ Len(MdEntries) = 2
    /\ \E i \in 1..2 :
          /\ MdEntries[i].node.content = <<>>
          /\ StandsFor(resp.entries[i], MdEntries[i])

\* the lines of the form marker, one space, text
MarkedLines(content, marker) ==
    SelectSeq(Lines(content),
              LAMBDA l : Len(l) > 2 /\ l[1] = marker /\ l[2] = " " /\ l[3] # " ")

\* the text after the marker of the first such line, or the fallback
AfterFirstMarker(content, marker, fallback) ==
    IF MarkedLines(content, marker) = <<>> THEN fallback
    ELSE LET l == Head(MarkedLines(content, marker)) IN SubSeq(l, 3, Len(l))

\* C10 as claimed, the description: it is the text after the marker of the
\* first line that starts with '> ', or the empty string when no line does; a
\* '>' that occurs later in a line never supplies it.
C10_AsClaimed ==
    (IsListAll /\ ListAllOk /\ Len(resp.entries) = Len(MdEntries)) =>
        \A i \in 1..Len(MdEntries) :
            resp.entries[i].description
                = AfterFirstMarker(MdEntries[i].node.content, ">", <<>>)

----------------------------------------------------------------------------
(* The get-one route: which failures read as 404                            *)

\* the get-one handler of the router answers the request in hand
IsGetOne == req.via = "http" /\ routeOf(req.path) = "getOne"

\* no directory entry answers the path
IsAbsent(r) == r.err \in {"ENOENT", "ENOTDIR"}

\* C11 as claimed: on the get-one route the status is 404 exactly when the
\* requested file does not exist, and 500 with an error body when the path
\* names a directory or a file that cannot be read; such a failure never
\* reads as 404.
C11_AsClaimed ==
    \A c \in CategoryArgs, n \in NameArgs :
        (IsGetOne /\ req.path = <<sApi, PatternsDirName, c, n>>) =>
            LET file == OnDisk(fs, c, n) IN
            /\ (resp.status = 404) <=> IsAbsent(file)
            /\ (~IsAbsent(file) /\ ~IsReadableFile(file)) =>
                   (resp.status = 500 /\ resp.kind = "error")

----------------------------------------------------------------------------
(* A scan that meets a failure                                              *)

\* the request in hand runs the scan: listAll or a search
RunsScan == IsListAll \/ IsSearch(req)

\* some step of a scan of the tree fails: a directory that cannot be listed,
\* or a markdown name that is no file that can be read
ScanFails == ~DirectoriesReadable \/ ~MdEntriesReadable

\* what the operating system answers to the call: '' when it succeeds
ErrorOf(call) ==
    LET r == OsWalk(fs, <<>>, call.path) IN
    IF r.err # "" THEN r.err
    ELSE IF call.op = "readdir" /\ r.node.kind # "dir" THEN "ENOTDIR"
    ELSE IF call.op = "readFile" /\ r.node.kind = "dir" THEN "EISDIR"
    ELSE IF call.op # "stat" /\ ~r.node.readable THEN "EACCES"
    ELSE ""

\* C12: when a step of the scan fails, the list or search request fails as a
\* whole: it answers an error without any entry, the failed call is the last
\* filesystem call it made (nothing is read after it), and the error carries
\* that call's message, with status 500 on the HTTP router.
C12_FailedScanFailsTheRequest ==
    (RunsScan /\ ScanFails) =>
        /\ resp.kind = "error"
        /\ resp.entries = <<>> /\ resp.text = <<>>
        /\ resp.io # <<>>
        /\ \A i \in 1..(Len(resp.io) - 1) : ErrorOf(resp.io[i]) = ""
        /\ ErrorOf(resp.io[Len(resp.io)]) # ""
        /\ resp.message = ErrorOf(resp.io[Len(resp.io)])
        /\ IF req.via = "http" THEN resp.status = 500 ELSE resp.thrown

\* GET /api/patterns over a category of two markdown names, the first of them
\* unreadable: answered 500 with EACCES, the second file never read
C12_Witness ==
    /\ req.via = "http" /\ IsListAll
    /\ Len(MdEntries) = 2
    /\ ~MdEntries[1].node.readable /\ IsReadableFile([err |-> "", node |-> MdEntries[2].node])
    /\ resp.status = 500 /\ resp.message = "EACCES"
    /\ resp.io[Len(resp.io)] =
           Io("readFile", <<PatternsDirName, MdEntries[1].category, MdEntries[1].node.name>>)

----------------------------------------------------------------------------
(* A search without its query                                               *)

\* C13 as claimed: a search whose required query is missing is rejected as
\* the client's error (status 400 on the HTTP router) before the request makes
\* any filesystem call.
C13_AsClaimed ==
    (IsSearch(req) /\ ~req.hasQuery) =>
        /\ resp.kind = "error"
        /\ resp.io = <<>>
        /\ req.via = "http" => resp.status = 400

----------------------------------------------------------------------------
(* The two front-ends' catalogs                                             *)

\* the fields of an entry both front-ends compute
Core(p) ==
    [category |-> p.category, name |-> p.name,
     title |-> p.title, description |-> p.description]

CoreOf(patterns) == [i \in 1..Len(patterns) |-> Core(patterns[i])]

\* C14 as claimed: over one tree the catalog of the protocol server and the
\* catalog of the HTTP router have the same length and agree, position by
\* position, on category, name, title and description: what listAll() answers
\* on one front-end is what the other front-end's scan yields.
C14_AsClaimed ==
    (IsListAll /\ ListAllOk) =>
        IF req.via = "http"
        THEN CoreOf(resp.entries) = CoreOf(getPatternList(fs).patterns)
        ELSE resp.entries =
                 [i \in 1..Len(httpGetPatternList(fs).patterns) |->
                      resourceOf(httpGetPatternList(fs).patterns[i])]

----------------------------------------------------------------------------
(* No state between requests                                                *)

\* the title the answer gives the entry is the heading the file now holds
ShowsHeading(entry, md) ==
    (IF req.via = "http" THEN entry.title ELSE entry.name)
        = AfterFirstMarker(md.node.content, "#", <<>>)

\* C15: the outcome of a request follows the tree as it is when the request
\* is made, whatever was asked and answered before. A search made again on
\* the tree the first search of the run ran on returns what that search
\* returned; listAll() lists the files the tree holds now, under the headings
\* they hold now, and fails when one of them cannot be read; readOne returns
\* the text the file holds now.
C15_OutcomeFollowsTheTree ==
    /\ (IsSearch(req) /\ req = firstSearch.req /\ fs = firstSearch.fs)
           => resp = firstSearch.resp
    /\ (IsListAll /\ DirectoriesReadable) =>
           IF MdEntriesReadable
           THEN /\ ListAllOk /\ OneEntryPerMdName
                /\ \A i \in 1..Len(MdEntries) :
                      ShowsHeading(resp.entries[i], MdEntries[i])
           ELSE resp.kind = "error"
    /\ \A c \in CategoryArgs, n \in NameArgs :
           (AsksFor(c, n) /\ Carries(c, n) /\ IsReadableFile(OnDisk(fs, c, n)))
               => ReturnsText(OnDisk(fs, c, n).node.content)

\* the first search of the run is made again after x.md was rewritten and
\* other requests were answered: it finds the entry under its new title
C15_Witness ==
    /\ IsSearch(req) /\ req = firstSearch.req
    /\ firstSearch.later = MaxLater
    /\ fs # firstSearch.fs
    /\ Len(resp.entries) = 1 /\ Len(firstSearch.resp.entries) = 1
    /\ firstSearch.resp.entries[1].title = <<"T">>
    /\ resp.entries[1].title = <<"V">>

----------------------------------------------------------------------------
(* Requests in flight at once                                               *)

\* what the request returns when it is the only one the server runs
Alone(tree, r) ==
    IF r.via = "http" THEN httpGet(tree, r)
    ELSE IF r.method = "resources/list" THEN listResources(tree)
    ELSE IF r.method = "resources/read" THEN readResource(tree, r.uri)
    ELSE callTool(tree, r)

\* the entries the scan of the request pushes when it runs alone
PushedAlone(tree, r) ==
    IF r.via = "http" THEN httpGetPatternList(tree).patterns
    ELSE getPatternList(tree).patterns

IsPrefix(s, t) == Len(s) <= Len(t) /\ SubSeq(t, 1, Len(s)) = s

\* C16: with several requests in flight, their awaits settling in any order
\* over a tree that stands still, every request answers what it answers when
\* run alone, and at every moment the array of a scan in flight holds the
\* entries its own scan has pushed so far and no other.
C16_InterleavedAsAlone ==
    \A i \in 1..MaxInFlight :
        /\ tasks[i].pc = "done" => tasks[i].resp = Alone(fs, tasks[i].req)
        /\ (tasks[i].pc \notin {"idle", "done"} /\ AwaitsScan(tasks[i].req)) =>
               IsPrefix(tasks[i].patterns, PushedAlone(fs, tasks[i].req))

\* two scans in flight, one through each front-end: one has answered its two
\* entries while the other, begun before, has pushed one entry so far
C16_Witness ==
    \E i, j \in 1..MaxInFlight :
        /\ tasks[i].pc = "done" /\ tasks[i].req.via = "http"
        /\ Len(tasks[i].resp.entries) = 2
        /\ tasks[j].pc = "stat" /\ tasks[j].req.via = "mcp"
        /\ Len(tasks[j].patterns) = 1

----------------------------------------------------------------------------
(* A readOne that ends in NotFound                                          *)

\* the pattern a get asks for
AskedCategory(r) == IF r.via = "http" THEN r.path[3] ELSE r.category

AskedName(r) == IF r.via = "http" THEN r.path[4] ELSE r.name

\* request i is a get, suspended at its read, for a file the tree does not hold
ReadsAbsent(i) ==
    /\ tasks[i].pc = "readOne"
    /\ IsNoFile(OnDisk(fs, AskedCategory(tasks[i].req), AskedName(tasks[i].req)))

\* the activation has answered NotFound
Missed(f) ==
    /\ f.pc = "done" /\ ~AwaitsScan(f.req)
    /\ f.resp.kind = "error"
    /\ IF f.req.via = "http" THEN f.resp.status = 404
       ELSE f.resp.isError /\ f.resp.message = "Pattern not found"

\* C17: a readOne that fails with NotFound changes nothing. The step in which
\* its read fails answers NotFound and leaves the tree and every other request
\* in flight as they are; so does the step that sends the answer, after which
\* the server takes a new request in its place; and a request that finishes
\* while the failed one is still unanswered returns what it returns alone.
C17_MissChangesNothing ==
    /\ [](\A i, j \in 1..MaxInFlight :
             (i # j /\ Missed(tasks[i]) /\ tasks[j].pc = "done")
                 => tasks[j].resp = Alone(fs, tasks[j].req))
    /\ [][\A i \in 1..MaxInFlight :
             /\ (ReadsAbsent(i) /\ tasks'[i] # tasks[i]) =>
                    /\ Missed(tasks'[i])
                    /\ fs' = fs
                    /\ \A j \in 1..MaxInFlight : j # i => tasks'[j] = tasks[j]
             /\ (Missed(tasks[i]) /\ tasks'[i] # tasks[i]) =>
                    /\ tasks'[i] = Idle
                    /\ fs' = fs
                    /\ \A j \in 1..MaxInFlight : j # i => tasks'[j] = tasks[j]]_vars

\* a GET of an absent pattern has answered 404 while a listAll(), in flight
\* with it, has answered its two entries
C17_Witness ==
    \E i, j \in 1..MaxInFlight :
        /\ Missed(tasks[i]) /\ tasks[i].req.via = "http"
        /\ tasks[j].pc = "done" /\ AwaitsScan(tasks[j].req)
        /\ Len(tasks[j].resp.entries) = 2
        /\ tasks[j].resp = Alone(fs, tasks[j].req)

----------------------------------------------------------------------------
(* The identity of an entry                                                 *)

\* what identifies an entry of the answer: its (category, name), which the
\* protocol server presents as the uri pattern:///<category>/<name>
KeyOf(entry) ==
    IF req.via = "http" THEN <<entry.category, entry.name>> ELSE <<entry.uri>>

\* C18 as claimed: within one catalog no two entries have the same
\* (category, name): two markdown files of one category always get two names.
C18_AsClaimed ==
    (IsListAll /\ ListAllOk) =>
        \A i, j \in 1..Len(resp.entries) :
            i # j => KeyOf(resp.entries[i]) # KeyOf(resp.entries[j])

----------------------------------------------------------------------------
(* From the list to the file                                                *)

\* the file name without its trailing extension
Stem(file) == SubSeq(file, 1, Len(file) - Len(<<".", "m", "d">>))

\* what reading the listed entry answers, on the front-end that listed it
ReadListed(entry) ==
    IF req.via = "http"
    THEN httpGet(fs, [NoReq EXCEPT !.via = "http", !.method = "GET",
                         !.path = <<sApi, PatternsDirName,
                                    entry.category, entry.name>>])
    ELSE readResource(fs, entry.uri)

\* C19 as claimed: every entry of listAll() carries the name of its
\* subdirectory as category and its file name without the trailing extension
\* as name, and reading it back (by the listed uri on the protocol server)
\* succeeds with the content of the file the entry was made from, for every
\* file name that ends in the extension (here: with a name before it), also
\* one that holds the extension text more than once.
C19_AsClaimed ==
    (IsListAll /\ ListAllOk /\ Len(resp.entries) = Len(MdEntries)) =>
        \A i \in 1..Len(MdEntries) :
            LET entry == resp.entries[i]
                md    == MdEntries[i]
            IN  Stem(md.node.name) # <<>> =>
                /\ IF req.via = "http"
                   THEN entry.category = md.category
                        /\ entry.name = Stem(md.node.name)
                   ELSE entry.uri = PatternScheme \o md.category \o <<Slash>>
                                        \o Stem(md.node.name)
                /\ ReadListed(entry).kind = "content"
                /\ ReadListed(entry).text = md.node.content

----------------------------------------------------------------------------
(* The order of the catalog                                                 *)

\* where the markdown names sit: <<c, f>> is entry f of the directory that is
\* entry c of the root's listing
Places ==
    UNION { { <<c, f>> : f \in { k \in 1..Len(Root(fs).entries[c].entries) :
                                   HasMdName(Root(fs).entries[c].entries[k]) } } :
            c \in { k \in 1..Len(Root(fs).entries) :
                        Root(fs).entries[k].kind = "dir" } }

\* p comes before q in the enumeration: an earlier category, or the same
\* category and an earlier file
Before(p, q) == p[1] < q[1] \/ (p[1] = q[1] /\ p[2] < q[2])

\* the position in the catalog of the file at place p
Rank(p) == 1 + Cardinality({q \in Places : Before(q, p)})

FileAt(p) ==
    [category |-> Root(fs).entries[p[1]].name,
     node     |-> Root(fs).entries[p[1]].entries[p[2]]]

\* C20: the catalog follows the enumeration and is not sorted: the entry of a
\* file comes after the entries of all files of the categories the root's
\* listing returns earlier and of the files its own category's listing
\* returns earlier, and before all others; so the entries of one category are
\* contiguous.
C20_EnumerationOrder ==
    (IsListAll /\ ListAllOk) =>
        /\ Len(resp.entries) = Cardinality(Places)
        /\ \A p \in Places : StandsFor(resp.entries[Rank(p)], FileAt(p))

\* the root lists the category b before the category Ab and so does the
\* catalog, against the alphabet
C20_Witness ==
    /\ req.via = "http" /\ IsListAll /\ ListAllOk
    /\ Root(fs).entries[1].name = <<"b">>
    /\ Len(resp.entries) = 2
    /\ resp.entries[1].category = <<"b">>
    /\ resp.entries[2].category = sAb

----------------------------------------------------------------------------
(* The patterns the repository ships: patterns/auth/azure-ad-msal.md and    *)
(* patterns/routing/react-router-navigation.md, each up to its fifth line   *)

sAuth == <<"a","u","t","h">>
sRouting == <<"r","o","u","t","i","n","g">>

sAzureAdMsal ==
    <<"a","z","u","r","e","-","a","d","-","m","s","a","l">>

sReactRouterNavigation ==
    <<"r","e","a","c","t","-","r","o","u","t","e","r","-","n","a","v","i","g",
      "a","t","i","o","n">>

\* azure-ad-msal.md, line 1 after the marker
AzureTitle ==
    <<"A","z","u","r","e"," ","A","D"," ","A","u","t","h","e","n","t","i","c",
      "a","t","i","o","n"," ","w","i","t","h"," ","M","S","A","L"," ","(","R",
      "e","a","c","t"," ","+"," ","T","y","p","e","S","c","r","i","p","t",
      ")">>

\* azure-ad-msal.md, line 3 after the marker
AzureDescription ==
    <<"P","r","o","v","e","n"," ","p","a","t","t","e","r","n"," ","f","r","o",
      "m"," ","A","C","R","E"," ","p","r","o","j","e","c","t"," ","-"," ","M",
      "u","l","t","i","-","s","c","o","p","e"," ","A","z","u","r","e"," ","A",
      "D"," ","a","u","t","h","e","n","t","i","c","a","t","i","o","n"," ","w",
      "i","t","h"," ","a","u","t","o","m","a","t","i","c"," ","t","o","k","e",
      "n"," ","r","e","f","r","e","s","h">>

\* react-router-navigation.md, line 1 after the marker
RouterTitle ==
    <<"R","e","a","c","t"," ","R","o","u","t","e","r"," ","N","a","v","i","g",
      "a","t","i","o","n"," ","P","a","t","t","e","r","n">>

\* react-router-navigation.md, line 3 after the marker
RouterDescription ==
    <<"P","r","o","v","e","n"," ","p","a","t","t","e","r","n"," ","f","r","o",
      "m"," ","A","C","R","E"," ","p","r","o","j","e","c","t"," ","-"," ","M",
      "u","l","t","i","-","p","a","g","e"," ","S","P","A"," ","w","i","t","h",
      " ","c","o","n","d","i","t","i","o","n","a","l"," ","c","o","n","t","e",
      "n","t"," ","r","e","n","d","e","r","i","n","g">>

sOverview == <<"#","#"," ","O","v","e","r","v","i","e","w">>

\* heading, empty line, blockquote, empty line, the next heading
Shipped(title, description) ==
    <<"#", " ">> \o title \o <<"\n", "\n", ">", " ">> \o description
    \o <<"\n", "\n">> \o sOverview \o <<"\n">>

AuthDir == Dir(sAuth, <<File(Md(sAzureAdMsal), Shipped(AzureTitle, AzureDescription))>>)

RoutingDir ==
    Dir(sRouting, <<File(Md(sReactRouterNavigation),
                         Shipped(RouterTitle, RouterDescription))>>)

\* the tree that holds exactly the two files, its root listed in either order
ShippedTrees ==
    { Dir(<<>>, <<File(Md(<<"R">>), <<"#"," ","M">>), Dir(PatternsDirName, l)>>) :
        l \in { <<AuthDir, RoutingDir>>, <<RoutingDir, AuthDir>> } }

InitShipped ==
    /\ fs \in ShippedTrees
    /\ req = NoReq
    /\ resp = NoResp
    /\ firstSearch = [NoSearch EXCEPT !.recording = FALSE]
    /\ tasks = NoTasks

SpecShipped == InitShipped /\ [][Next]_vars

sRouter == <<"r","o","u","t","e","r">>

\* the title an entry of the answer shows: a resource carries it as its name
TitleShown(entry) ==
    IF resp.kind = "resources" THEN entry.name ELSE entry.title

\* the heading text of the file shipped in the category
ShippedTitle(category) == IF category = sAuth THEN AzureTitle ELSE RouterTitle

\* C21: over the tree that holds exactly auth/azure-ad-msal.md and
\* routing/react-router-navigation.md with their shipped contents, listAll()
\* returns exactly two entries, titled with the exact heading text of the two
\* files in listing order, and search('router') returns the routing entry alone.
C21_ShippedScenario ==
    fs \in ShippedTrees =>
        /\ IsListAll =>
              /\ ListAllOk
              /\ Len(resp.entries) = 2
              /\ \A i \in 1..2 :
                    TitleShown(resp.entries[i]) =
                        ShippedTitle(Root(fs).entries[i].name)
        /\ SearchesFor(sRouter) =>
              /\ resp.kind = "matches"
              /\ Len(resp.entries) = 1
              /\ resp.entries[1].category = sRouting
              /\ resp.entries[1].name = sReactRouterNavigation
              /\ resp.entries[1].title = RouterTitle
              /\ resp.entries[1].description = RouterDescription

\* the search tool asked for 'router' over the tree that lists routing before
\* auth, answered with one entry
C21_Witness ==
    /\ fs \in ShippedTrees
    /\ Root(fs).entries[1].name = sRouting
    /\ req.via = "mcp" /\ SearchesFor(sRouter)
    /\ Len(resp.entries) = 1

----------------------------------------------------------------------------
(* The category listing of the protocol adapter against the catalog         *)

\* c names a directory directly inside the patterns directory
IsCategoryOf(tree, c) ==
    \E i \in 1..Len(Root(tree).entries) :
        Root(tree).entries[i].kind = "dir" /\ Root(tree).entries[i].name = c

\* the lines of a listing that reports the names and nothing else
NameLines(c, names) ==
    << <<"P","a","t","t","e","r","n","s"," ","i","n"," ">> \o c \o <<":">> >>
    \o (IF names = <<>> THEN << <<>> >>
        ELSE [i \in 1..Len(names) |-> <<"-", " ">> \o names[i]])

----------------------------------------------------------------------------
(* Failures that reach the caller                                           *)

\* the failure of the last filesystem call the request made, '' without one
LastFailure ==
    IF resp.io = <<>> THEN "" ELSE ErrorOf(resp.io[Len(resp.io)])

\* C23 as claimed: a filesystem failure that is not 'file missing' (a
\* permission error, a path that is a directory) reaches the caller as an
\* error outcome that carries the failure's own message, on every operation
\* of both front-ends.
C23_AsClaimed ==
    (req # NoReq /\ LastFailure \in {"EACCES", "EISDIR"}) =>
        /\ resp.kind = "error"
        /\ resp.message = LastFailure

----------------------------------------------------------------------------
(* The two levels of the scan                                               *)

\* the root holds an entry that is no directory
RootHoldsFile ==
    \E i \in 1..Len(Root(fs).entries) : Root(fs).entries[i].kind = "file"

\* the call touches the root, a directory directly inside it, or a markdown
\* name directly inside such a directory, and nothing else
WithinTwoLevels(call) ==
    /\ call.path # <<>> /\ call.path[1] = PatternsDirName
    /\ CASE call.op = "readdir"  -> Len(call.path) \in {1, 2}
         [] call.op = "stat"     -> Len(call.path) = 2
         [] call.op = "readFile" ->
                /\ Len(call.path) = 3
                /\ IsCategoryOf(fs, call.path[2])
                /\ endsWith(call.path[3], MdExt)
         [] OTHER -> FALSE

\* C24: the scan covers exactly two levels: every entry of listAll() stands
\* for a markdown name directly inside an immediate subdirectory of the root
\* (none for a file of the root itself, for a name without the extension or
\* for a file nested deeper), the scan touches nothing else, and entries of
\* the root that are not directories are passed over without an error.
C24_ScanCoversTwoLevels ==
    IsListAll =>
        /\ \A k \in 1..Len(resp.io) : WithinTwoLevels(resp.io[k])
        /\ ListAllOk =>
               \A k \in 1..Len(resp.entries) :
                   \E i \in 1..Len(MdEntries) : StandsFor(resp.entries[k], MdEntries[i])
        /\ (DirectoriesReadable /\ MdEntriesReadable) => ListAllOk

\* listAll() answered with one entry over a root that holds a file beside
\* the category
C24_Witness ==
    /\ IsListAll /\ ListAllOk
    /\ RootHoldsFile
    /\ Len(resp.entries) = 1

----------------------------------------------------------------------------
(* One outcome per request, and no filesystem call made twice               *)

\* the filesystem calls the activation has made so far
CallsOf(f) == IF f.pc = "done" THEN f.resp.io ELSE f.io

NoCallTwice(io) == \A j, k \in 1..Len(io) : j # k => io[j] # io[k]

\* a result or an error, not both
OneOutcome(r) ==
    IF r.kind = "error"
    THEN r.entries = <<>> /\ r.text = <<>> /\ r.message # ""
    ELSE /\ r.kind \in {"resources", "entries", "matches", "content", "listing"}
         /\ ~r.thrown /\ ~r.isError /\ r.message = ""

\* the activation waits for a filesystem call to settle
Awaiting(f) == f.pc \in {"readdir", "stat", "readdirCategory", "readFile", "readOne"}

\* the call the activation waits for has its operand: the category in hand,
\* the markdown name in hand
CanSettle(f) ==
    /\ f.pc \in {"stat", "readdirCategory", "readFile"} => f.categories # <<>>
    /\ f.pc = "readFile" => f.files # <<>> /\ endsWith(Head(f.files), MdExt)

OutcomeOnceDone ==
    \A i \in 1..MaxInFlight :
        LET f  == tasks[i]
            io == CallsOf(f)
        IN  /\ f.pc \in {"idle", "done"} \/ Awaiting(f)
            /\ Awaiting(f) => f.resp = NoResp /\ CanSettle(f)
            /\ f.pc = "done" => OneOutcome(f.resp)
            /\ NoCallTwice(io)
            /\ \A k \in 1..(Len(io) - 1) : ErrorOf(io[k]) = ""
            /\ (io # <<>> /\ ErrorOf(io[Len(io)]) # "") => f.pc = "done"

\* a step of an activation in flight makes exactly one more call
OneMoreCall ==
    \A i \in 1..MaxInFlight :
        (Awaiting(tasks[i]) /\ tasks'[i] # tasks[i]) =>
            /\ Len(CallsOf(tasks'[i])) = Len(CallsOf(tasks[i])) + 1
            /\ IsPrefix(CallsOf(tasks[i]), CallsOf(tasks'[i]))
            /\ tasks'[i].req = tasks[i].req

\* C25: every request ends with exactly one outcome, a result or an error:
\* an activation that waits can always take its next step, each step makes
\* one more filesystem call, no call is made twice within a request (each
\* directory is listed at most once, each file read at most once), nothing is
\* called after a call that failed, and the outcome exists exactly once the
\* activation is done.
C25_OneOutcomeNoRetry == []OutcomeOnceDone /\ [][OneMoreCall]_vars

\* a list request done with an error after three calls, the last of them the
\* read of the unreadable u.md
C25_Witness ==
    \E i \in 1..MaxInFlight :
        /\ tasks[i].pc = "done"
        /\ AwaitsScan(tasks[i].req)
        /\ tasks[i].resp.kind = "error"
        /\ Len(tasks[i].resp.io) > 3
        /\ tasks[i].resp.io[Len(tasks[i].resp.io)].op = "readFile"

----------------------------------------------------------------------------
(* The filesystem as the requests leave it                                  *)

\* the calls that change nothing
ReadingCalls == {"readdir", "stat", "readFile"}

OnlyReads == \A k \in 1..Len(resp.io) : resp.io[k].op \in ReadingCalls

\* C26: both front-ends are read-only: every filesystem call of a request,
\* answered with a result or with an error, is a listing, a stat or a read,
\* and no step of any request changes the tree, so that the tree after any
\* sequence of requests is the tree before it.
C26_ReadOnly == []OnlyReads /\ [][fs' = fs]_vars

\* a request of the HTTP router answered with an error after it made
\* filesystem calls
C26_Witness ==
    /\ req.via = "http"
    /\ resp.kind = "error"
    /\ Len(resp.io) >= 2

----------------------------------------------------------------------------
(* What a get can reach                                                     *)

\* listAll() holds an entry for the pair
InCatalog(c, n) ==
    \E i \in 1..Len(Catalog.patterns) :
        Catalog.patterns[i].category = c /\ Catalog.patterns[i].name = n

\* C27 as claimed: a get of (category, name) returns content only if
\* listAll() on the same tree holds an entry for that pair, whatever the two
\* strings are; it never returns a file outside the patterns directory or at
\* another depth.
C27_AsClaimed ==
    \A c \in CategoryArgs, n \in NameArgs :
        (AsksFor(c, n) /\ Catalog.err = "" /\ resp.kind = "content")
            => InCatalog(c, n)

----------------------------------------------------------------------------
(* A scan in flight while an outside writer changes the tree                *)

\* the most activations in flight while the tree changes, and the most
\* changes one activation lives through
MaxRacing == 1
MaxWrites == 2

\* the categories b and Ab, each holding x.md or nothing
RacingListings == { <<>>, <<File(Md(<<"x">>), <<"#"," ","T","\n",">"," ","D">>)>> }

RacingTrees ==
    { Dir(<<>>, <<File(Md(<<"R">>), <<"#"," ","M">>),
                  Dir(PatternsDirName, <<Dir(<<"b">>, l1), Dir(sAb, l2)>>)>>) :
        l1 \in RacingListings, l2 \in RacingListings }

\* the two trees differ by one file added to or removed from one category
OneChangeApart(t1, t2) ==
    Cardinality({k \in 1..2 : Root(t1).entries[k] # Root(t2).entries[k]}) = 1

InitRacing ==
    /\ fs \in RacingTrees
    /\ req = NoReq
    /\ resp = NoResp
    /\ firstSearch = [NoSearch EXCEPT !.recording = FALSE]
    /\ tasks = NoTasks

\* the outside writer adds or removes one file while an activation waits;
\* every activation in flight remembers the tree it replaces
Writer ==
    /\ \E i \in 1..MaxRacing : tasks[i].pc \notin {"idle", "done"}
    /\ \A i \in 1..MaxInFlight : Len(tasks[i].seen) < MaxWrites
    /\ \E t \in RacingTrees : OneChangeApart(fs, t) /\ fs' = t
    /\ tasks' = [i \in 1..MaxInFlight |->
                    IF tasks[i].pc = "idle" THEN tasks[i]
                    ELSE [tasks[i] EXCEPT !.seen = Append(@, fs)]]
    /\ UNCHANGED <<req, resp, firstSearch>>

NextRacing ==
    \/ \E i \in 1..MaxRacing :
          \/ Begin(i)
          \/ ReaddirRoot(i)
          \/ Stat(i)
          \/ ReaddirCategory(i)
          \/ ReadFile(i)
          \/ ReadOne(i)
          \/ Reply(i)
    \/ Writer

SpecRacing == InitRacing /\ [][NextRacing]_vars

\* the trees that existed while the activation ran: those replaced since it
\* started, and the one in place
Existed(f) == {f.seen[k] : k \in 1..Len(f.seen)} \cup {fs}

\* the activation is a scan that has ended
ScanDone(f) == f.pc = "done" /\ AwaitsScan(f.req)

\* C28 as claimed: with an outside writer adding and removing files while a
\* scan is suspended, a scan that completes holds the catalog of one of the
\* trees that existed between its start and its end, and no scan fails for
\* the only reason that a file it had listed was removed before it was read.
C28_AsClaimed ==
    \A i \in 1..MaxRacing :
        ScanDone(tasks[i]) =>
            /\ tasks[i].resp.kind # "error" =>
                   \E t \in Existed(tasks[i]) :
                       tasks[i].patterns = PushedAlone(t, tasks[i].req)
            /\ tasks[i].resp.message # "ENOENT"

----------------------------------------------------------------------------
(* The form of a pattern URI                                                *)

\* the URI starts with 'pattern:///'
HasScheme(uri) ==
    Len(uri) >= Len(PatternScheme)
    /\ SubSeq(uri, 1, Len(PatternScheme)) = PatternScheme

\* what follows the scheme
AfterScheme(uri) == SubSeq(uri, Len(PatternScheme) + 1, Len(uri))

\* the position of the last '/' of s, 0 without one
LastSlash(s) ==
    IF \E k \in 1..Len(s) : s[k] = Slash
    THEN CHOOSE k \in 1..Len(s) :
             s[k] = Slash /\ \A m \in (k + 1)..Len(s) : s[m] # Slash
    ELSE 0

\* pattern:///<category>/<name>, the category everything before the last '/'
\* and the name everything after it, neither of them empty
HasPatternForm(uri) ==
    /\ HasScheme(uri)
    /\ LastSlash(AfterScheme(uri)) > 1
    /\ LastSlash(AfterScheme(uri)) < Len(AfterScheme(uri))

\* pattern:/// followed by one line of text that holds a '/' with a character
\* on either side of it
IsAccepted(uri) ==
    /\ HasScheme(uri)
    /\ ~HasLineTerminator(AfterScheme(uri))
    /\ \E k \in 2..(Len(AfterScheme(uri)) - 1) : AfterScheme(uri)[k] = Slash

RejectedUnread ==
    resp.thrown /\ resp.message = "Invalid pattern URI" /\ resp.io = <<>>

\* one read, of the file <root>/<rest>.md, answered with its text or with
\* 'Pattern not found: <rest>'
ReadOnce(rest) ==
    LET file == OsWalk(fs, <<>>,
                       split(PatternsDirName \o <<Slash>> \o rest \o MdExt))
    IN  /\ Len(resp.io) = 1 /\ resp.io[1].op = "readFile"
        /\ IF IsReadableFile(file) THEN ReturnsText(file.node.content)
           ELSE resp.thrown /\ resp.message = "Pattern not found"
                /\ resp.detail = rest

\* C29 as claimed: a resource read whose URI is not pattern:///<category>/<name>
\* with both parts non-empty, the category everything before the last '/' and
\* the name everything after it, fails with 'Invalid pattern URI' before any
\* filesystem call; every URI of that form proceeds to exactly one file read.
C29_AsClaimed ==
    \A uri \in UriArgs :
        (ViaResource /\ req.uri = uri) =>
            IF HasPatternForm(uri) THEN ReadOnce(AfterScheme(uri))
            ELSE RejectedUnread

\* C29, amended: the read fails with 'Invalid pattern URI' before any
\* filesystem call exactly when the URI is not pattern:/// followed by one
\* line of text holding a '/' with at least one character on either side;
\* every other URI proceeds to exactly one read, of <root>/<text>.md.
C29_UriFormDecidesTheRead ==
    \A uri \in UriArgs :
        (ViaResource /\ req.uri = uri) =>
            IF IsAccepted(uri) THEN ReadOnce(AfterScheme(uri))
            ELSE RejectedUnread

\* the URI pattern:///Ab/s/, which ends in '/', proceeded to a read
C29_Witness ==
    /\ ViaResource
    /\ req.uri = PatternScheme \o <<"A","b","/","s","/">>
    /\ Len(resp.io) = 1
    /\ resp.message = "Pattern not found"

----------------------------------------------------------------------------
(* The category listing and its error                                       *)

\* the request in hand calls the tool list_patterns_by_category
CallsListing == req.via = "mcp" /\ req.tool = "list_patterns_by_category"

\* <root>/<category> as the operating system resolves it
CategoryOnDisk(category) ==
    OsWalk(fs, <<>>, split(PatternsDirName \o <<Slash>> \o category))

\* listing the directory succeeds
CanBeListed(r) == r.err = "" /\ r.node.kind = "dir" /\ r.node.readable

\* C30 as claimed: list_patterns_by_category never throws to the caller; it
\* returns the error result 'Category not found' exactly when listing
\* <root>/<category> fails, and for a directory without markdown names a
\* successful result with an empty list of names.
C30_AsClaimed ==
    CallsListing =>
        /\ ~resp.thrown
        /\ req.hasCategory =>
               LET dir == CategoryOnDisk(req.category) IN
               /\ (resp.isError /\ resp.message = "Category not found")
                      <=> ~CanBeListed(dir)
               /\ (CanBeListed(dir)
                     /\ \A k \in 1..Len(dir.node.entries) :
                           ~HasMdName(dir.node.entries[k])) =>
                      /\ resp.kind = "listing" /\ ~resp.isError
                      /\ ListedNames(resp.text) = <<>>

====
